---------------------------- MODULE Spec2Model ----------------------------
(***************************************************************************)
(* PhotoMinder: the embedded-metadata extractor getExifDate of             *)
(* src/utils.ts, modelled as a state machine over a byte buffer.           *)
(*                                                                         *)
(* A file is a sequence of bytes (0..255).  The DataView reads of the      *)
(* code are modelled byte by byte, with their byte order, and every read   *)
(* the code issues is logged (reads) so that bounds safety is a property   *)
(* of the model and not an assumption.  A read outside the buffer throws   *)
(* a RangeError, which the code's try/catch turns into undefined.          *)
(***************************************************************************)
EXTENDS Integers, Sequences, FiniteSets, TLC

VARIABLES
  jsEngine, \* the JavaScript engine's Date.parse behaviour, fixed for a run
  input,    \* the producer's description of the file under test (ghost)
  file,     \* the File handed to getExifDate: [type, bytes, readable]
  buffer,   \* the ArrayBuffer behind the DataView (utils.ts:51-52)
  ex,       \* the locals of the running call of getExifDate, and its outcome
  calls,    \* number of calls of getExifDate started so far
  first,    \* the file and the outcome of the first completed call (ghost)
  app,      \* the React state of App: photos, selectedIds, directoryHandle
  tasks,    \* the asynchronous work of App in flight: loads and promises
  now,      \* the clock behind Date.now(), in milliseconds
  disk      \* the directories on disk: the names of their entries, in order

appVars == <<app, tasks, now, disk>>

vars ==
  <<jsEngine, input, file, buffer, ex, calls, first, app, tasks, now, disk>>

----------------------------------------------------------------------------
(* Program constants of getExifDate. *)

SOI == 65496
SOS == 65498
APP1 == 65505
ExifSig == 1165519206
BomII == 18761
BomMM == 19789
TiffMagic == 42
MinIFDOffset == 8
EntrySize == 12
TagDateTimeOriginal == 36867
TypeAscii == 2
DateCount == 20
DateChars == 19

(* The camera make and model tags of the first directory (ExifData.make,   *)
(* ExifData.model of src/types.ts).                                        *)
TagMake == 271
TagModel == 272
SliceLimit == 65536

(* Character codes used by the timestamp conversion. *)
ChColon == 58
ChDash == 45
ChSpace == 32
ChT == 84
ChZero == 48

(* Bounds of the model. *)
MaxCalls == 3
MaxPre == 1
MaxEntries == 2
MaxTrail == 1

----------------------------------------------------------------------------
(* JavaScript values: a number, NaN, or undefined. *)

Undefined == [k |-> "undefined"]
NaN == [k |-> "NaN"]
Num(n) == [k |-> "number", v |-> n]

Min(S) == CHOOSE m \in S : \A n \in S : m <= n
Range(s) == {s[k] : k \in 1..Len(s)}
Rep(n, b) == [k \in 1..n |-> b]

----------------------------------------------------------------------------
(* DataView: byteLength, getUint8, getUint16, getUint32.  Offsets are      *)
(* 0-based as in the code; the sequence is 1-based.                        *)

InRange(b, r) == r[1] >= 0 /\ r[1] + r[2] <= Len(b)

Byte(b, o) == IF o >= 0 /\ o < Len(b) THEN b[o + 1] ELSE 0

getUint8(b, o) == Byte(b, o)

getUint16(b, o, littleEndian) ==
  IF littleEndian THEN Byte(b, o) + 256 * Byte(b, o + 1)
  ELSE 256 * Byte(b, o) + Byte(b, o + 1)

(* A JavaScript number holds every 32-bit unsigned value exactly and sums  *)
(* of them never wrap.  TLC's integers are 32-bit signed, so a value whose *)
(* top byte is 0x70 or more is kept as 0x70000000 + its low 24 bits: the   *)
(* code only adds such a value to an offset below 2^17 and compares the    *)
(* sum with the buffer length (at most SliceLimit), with 8, with 20 or     *)
(* with 0x45786966, and every value of at least 0x70000000 decides those   *)
(* comparisons alike.                                                      *)
U32(b3, b2, b1, b0) ==
  16777216 * (IF b3 >= 112 THEN 112 ELSE b3) + 65536 * b2 + 256 * b1 + b0

getUint32(b, o, littleEndian) ==
  IF littleEndian
  THEN U32(Byte(b, o + 3), Byte(b, o + 2), Byte(b, o + 1), Byte(b, o))
  ELSE U32(Byte(b, o), Byte(b, o + 1), Byte(b, o + 2), Byte(b, o + 3))

----------------------------------------------------------------------------
(* The timestamp conversion of utils.ts:148-157.                           *)
(* dateStr is the sequence of the 19 character codes read from the buffer. *)

IsDigit(c) == c >= ChZero /\ c <= ChZero + 9
Digits(s, from, n) == \A k \in from..(from + n - 1) : IsDigit(s[k])

RECURSIVE ToInt(_, _, _)
ToInt(s, from, n) ==
  IF n = 0 THEN 0
  ELSE 10 * ToInt(s, from, n - 1) + (s[from + n - 1] - ChZero)

(* dateStr.includes(':') *)
IncludesColon(s) == \E k \in 1..Len(s) : s[k] = ChColon

(* dateStr.replace(/^(\d{4}):(\d{2}):(\d{2})/, '$1-$2-$3') *)
ReplaceDateColons(s) ==
  IF /\ Len(s) >= 10
     /\ Digits(s, 1, 4) /\ s[5] = ChColon
     /\ Digits(s, 6, 2) /\ s[8] = ChColon
     /\ Digits(s, 9, 2)
  THEN [s EXCEPT ![5] = ChDash, ![8] = ChDash]
  ELSE s

(* .replace(' ', 'T'): the first space only *)
ReplaceFirstSpace(s) ==
  LET at == {k \in 1..Len(s) : s[k] = ChSpace}
  IN IF at = {} THEN s ELSE [s EXCEPT ![Min(at)] = ChT]

IsLeap(y) == (y % 4 = 0 /\ y % 100 # 0) \/ y % 400 = 0

DaysInMonth(y, m) ==
  IF m = 2 THEN (IF IsLeap(y) THEN 29 ELSE 28)
  ELSE IF m \in {4, 6, 9, 11} THEN 30 ELSE 31

(* Days from 1970-01-01 to the civil date y-m-d (proleptic Gregorian). *)
DaysFromCivil(y, m, d) ==
  LET yy == IF m <= 2 THEN y - 1 ELSE y
      era == yy \div 400
      yoe == yy - era * 400
      mp == (m + 9) % 12
      doy == (153 * mp + 2) \div 5 + d - 1
      doe == yoe * 365 + yoe \div 4 - yoe \div 100 + doy
  IN era * 146097 + doe - 719468

(* The instant of a local date and time.  getTime() is                     *)
(* day * 86400000 + sec * 1000 milliseconds of local wall-clock time; the  *)
(* pair is kept because the product exceeds TLC's integers.  The zone     *)
(* offset is the same for the code and for every statement about it.       *)
LocalInstant(y, mo, d, h, mi, s) ==
  LET t == h * 3600 + mi * 60 + s
  IN [day |-> DaysFromCivil(y, mo, 1) + (d - 1) + t \div 86400,
      sec |-> t % 86400]

(* The date-time string format of ECMA-262 that has 19 characters:         *)
(* YYYY-MM-DDTHH:mm:ss, read as local time.                                *)
IsoShape(s) ==
  /\ Len(s) = DateChars
  /\ Digits(s, 1, 4) /\ s[5] = ChDash
  /\ Digits(s, 6, 2) /\ s[8] = ChDash
  /\ Digits(s, 9, 2) /\ s[11] = ChT
  /\ Digits(s, 12, 2) /\ s[14] = ChColon
  /\ Digits(s, 15, 2) /\ s[17] = ChColon
  /\ Digits(s, 18, 2)

(* new Date(isoStr).getTime().  ECMA-262 fixes the result for a string of  *)
(* the format; a day beyond the month's last (up to 31) and any string not *)
(* of the format are left to the engine: "strict" answers NaN to both,     *)
(* "lenient" rolls the day over into the next month and accepts the other  *)
(* string as some instant.                                                 *)
DateParse(s, engine) ==
  IF IsoShape(s)
  THEN LET y == ToInt(s, 1, 4)
           mo == ToInt(s, 6, 2)
           d == ToInt(s, 9, 2)
           h == ToInt(s, 12, 2)
           mi == ToInt(s, 15, 2)
           sc == ToInt(s, 18, 2)
       IN IF \/ mo < 1 \/ mo > 12 \/ d < 1 \/ d > 31
             \/ h > 24 \/ mi > 59 \/ sc > 59
             \/ (h = 24 /\ (mi # 0 \/ sc # 0))
          THEN NaN
          ELSE IF d > DaysInMonth(y, mo) /\ engine = "strict" THEN NaN
          ELSE Num(LocalInstant(y, mo, d, h, mi, sc))
  ELSE IF engine = "lenient" THEN Num([day |-> 0, sec |-> 0]) ELSE NaN

(* utils.ts:153-158: the value of a 0x9003 entry, or "continue" when the   *)
(* string holds no ':' and the directory loop goes on.                     *)
ConvertDate(dateStr, engine) ==
  IF IncludesColon(dateStr)
  THEN LET isoStr == ReplaceFirstSpace(ReplaceDateColons(dateStr))
           timestamp == DateParse(isoStr, engine)
       IN IF timestamp = NaN THEN Undefined ELSE timestamp
  ELSE [k |-> "continue"]

----------------------------------------------------------------------------
(* getExifDate (utils.ts:46-170), one operator per stretch of the code.    *)
(* Each operator maps the locals s of the call to the locals after the     *)
(* stretch; rs lists, in program order, the DataView reads the stretch     *)
(* issues on the way it takes.  ret is the source line of the return       *)
(* statement that ended the call.                                          *)

InitEx ==
  [pc |-> "type", offset |-> 0, littleEndian |-> FALSE, tiffOffset |-> 0,
   ifdOffset |-> 0, entries |-> 0, i |-> 0, result |-> Undefined,
   reads |-> {}, app1At |-> -1, ret |-> 0, status |-> "pending"]

(* DataView throws a RangeError on the first read of rs that is not inside *)
(* the buffer; control then passes to the catch block of line 165.         *)
Issue(b, s, rs, nxt) ==
  LET bad == {k \in 1..Len(rs) : ~InRange(b, rs[k])}
  IN IF bad = {} THEN [nxt EXCEPT !.reads = s.reads \cup Range(rs)]
     ELSE [s EXCEPT !.pc = "catch",
                    !.reads = s.reads \cup {rs[j] : j \in 1..Min(bad)}]

Return(b, s, rs, line, res) ==
  Issue(b, s, rs, [s EXCEPT !.pc = "done", !.result = res, !.ret = line,
                            !.status = "resolved"])

IsImageType(type) == type # ""

(* utils.ts:48 *)
IsJpegType(type) == type = "image/jpeg" \/ type = "image/jpg"

CheckType(f, s) ==
  IF ~IsJpegType(f.type)
  THEN [s EXCEPT !.pc = "done", !.result = Undefined, !.ret = 48,
                 !.status = "resolved"]
  ELSE [s EXCEPT !.pc = "read"]

OnReadErrorUncaught(s) == [s EXCEPT !.pc = "done", !.status = "rejected"]

(* utils.ts:50-51: the await sits inside the try block, so a rejected      *)
(* arrayBuffer() promise is caught at line 165.                            *)
OnReadError(s) == [s EXCEPT !.pc = "catch"]

(* file.slice(0, 65536).arrayBuffer() *)
SliceOf(bytes) ==
  SubSeq(bytes, 1, IF Len(bytes) < SliceLimit THEN Len(bytes) ELSE SliceLimit)

(* utils.ts:56 *)
TooShortForSOI(b) == Len(b) < 2

IsSOILittleEndian(b) == getUint16(b, 0, TRUE) = SOI
IsSOI(b) == getUint16(b, 0, FALSE) = SOI

CheckSOIStaleOffset(b, s) ==
  IF TooShortForSOI(b) THEN Return(b, s, <<>>, 56, Undefined)
  ELSE IF ~IsSOI(b)
       THEN Return(b, s, << <<0, 2>> >>, 56, Undefined)
       ELSE Issue(b, s, << <<0, 2>> >>, [s EXCEPT !.pc = "scan"])

CheckSOI(b, s) ==
  IF TooShortForSOI(b) THEN Return(b, s, <<>>, 56, Undefined)
  ELSE IF ~IsSOI(b)
       THEN Return(b, s, << <<0, 2>> >>, 56, Undefined)
       ELSE Issue(b, s, << <<0, 2>> >>, [s EXCEPT !.pc = "scan", !.offset = 2])

(* utils.ts:60, the loop condition *)
ScanCondition(b, offset) == offset < Len(b) - 1

(* utils.ts:69 and 80 *)
HeaderTruncated(b, offset) == offset + 4 > Len(b)

NextSegmentLengthOnly(offset, segmentLength) == offset + segmentLength

NextSegmentPastHeader(offset, segmentLength) == offset + 4 + segmentLength

(* utils.ts:75 *)
NextSegment(offset, segmentLength) == offset + 2 + segmentLength

IsEOIMarker(marker) == marker = 65497

(* utils.ts:64 *)
IsSOS(marker) == marker = SOS

(* utils.ts:60-77: one iteration of the segment scan, up to the point      *)
(* where an APP1 marker is recognised.                                     *)
ScanSegment(b, s) ==
  IF ~ScanCondition(b, s.offset) THEN Return(b, s, <<>>, 164, Undefined)
  ELSE
    LET marker == getUint16(b, s.offset, FALSE)
        r1 == <<s.offset, 2>>
        r2 == <<s.offset + 2, 2>>
        segmentLength == getUint16(b, s.offset + 2, FALSE)
    IN IF IsSOS(marker) THEN Return(b, s, <<r1>>, 64, Undefined)
       ELSE IF marker # APP1
       THEN IF HeaderTruncated(b, s.offset)
            THEN Return(b, s, <<r1>>, 69, Undefined)
            ELSE Issue(b, s, <<r1, r2>>,
                       [s EXCEPT !.offset = NextSegment(s.offset, segmentLength)])
       ELSE Issue(b, s, <<r1>>, [s EXCEPT !.pc = "app1", !.app1At = s.offset])

SegmentTruncatedNoMarker(b, offset, segmentLength) ==
  offset + segmentLength > Len(b)

(* utils.ts:84 *)
SegmentTruncated(b, offset, segmentLength) ==
  offset + 2 + segmentLength > Len(b)

(* utils.ts:92 *)
SignatureTruncated(b, exifHeaderOffset) == exifHeaderOffset + 6 > Len(b)

(* utils.ts:103 *)
TiffTruncated(b, tiffOffset) == tiffOffset + 8 > Len(b)

(* utils.ts:94 *)
HasExifName(b, exifHeaderOffset) ==
  getUint32(b, exifHeaderOffset, FALSE) = ExifSig

HasNullPadFirstByte(b, exifHeaderOffset) ==
  getUint8(b, exifHeaderOffset + 4) = 0

(* utils.ts:97 *)
HasNullPad(b, exifHeaderOffset) ==
  getUint16(b, exifHeaderOffset + 4, FALSE) = 0

NotExifSegmentSkipped(b, s, rs) ==
  Issue(b, s, rs,
        [s EXCEPT !.pc = "scan",
                  !.offset = NextSegment(s.offset,
                                         getUint16(b, s.offset + 2, FALSE))])

(* utils.ts:94-96: "Not an Exif segment" ends the call *)
NotExifSegment(b, s, rs) == Return(b, s, rs, 95, Undefined)

(* utils.ts:79-103: the APP1 segment header and the Exif signature *)
App1Header(b, s) ==
  LET o == s.offset
      r1 == <<o + 2, 2>>
      segmentLength == getUint16(b, o + 2, FALSE)
      exifHeaderOffset == o + 4
      r2 == <<exifHeaderOffset, 4>>
      r3 == <<exifHeaderOffset + 4, 2>>
      tiffOffset == exifHeaderOffset + 6
  IN IF HeaderTruncated(b, o) THEN Return(b, s, <<>>, 80, Undefined)
     ELSE IF SegmentTruncated(b, o, segmentLength)
     THEN Return(b, s, <<r1>>, 86, Undefined)
     ELSE IF SignatureTruncated(b, exifHeaderOffset)
     THEN Return(b, s, <<r1>>, 92, Undefined)
     ELSE IF ~HasExifName(b, exifHeaderOffset)
     THEN NotExifSegment(b, s, <<r1, r2>>)
     ELSE IF ~HasNullPad(b, exifHeaderOffset)
     THEN Return(b, s, <<r1, r2, r3>>, 98, Undefined)
     ELSE IF TiffTruncated(b, tiffOffset)
     THEN Return(b, s, <<r1, r2, r3>>, 103, Undefined)
     ELSE Issue(b, s, <<r1, r2, r3>>,
                [s EXCEPT !.pc = "tiff", !.tiffOffset = tiffOffset])

(* utils.ts:107 *)
IsLittleEndian(byteOrder) == byteOrder = BomII

IfdTruncatedNoWidth(b, ifdOffset) == ifdOffset > Len(b)

(* utils.ts:120 *)
IfdTruncated(b, ifdOffset) == ifdOffset + 2 > Len(b)

MagicBigEndian(b, tiffOffset, littleEndian) ==
  getUint16(b, tiffOffset + 2, FALSE)

(* utils.ts:110 *)
Magic(b, tiffOffset, littleEndian) ==
  getUint16(b, tiffOffset + 2, littleEndian)

IfdOffsetNegative(firstIFDOffset) == firstIFDOffset < 0

(* utils.ts:115 *)
IfdOffsetTooSmall(firstIFDOffset) == firstIFDOffset < MinIFDOffset

(* utils.ts:105-122: byte order, magic, first-directory offset, entry count *)
TiffHeader(b, s) ==
  LET t == s.tiffOffset
      r1 == <<t, 2>>
      byteOrder == getUint16(b, t, FALSE)
      littleEndian == IsLittleEndian(byteOrder)
      r2 == <<t + 2, 2>>
      r3 == <<t + 4, 4>>
      firstIFDOffset == getUint32(b, t + 4, littleEndian)
      ifdOffset == t + firstIFDOffset
      r4 == <<ifdOffset, 2>>
  IN IF Magic(b, t, littleEndian) # TiffMagic
     THEN Return(b, s, <<r1, r2>>, 111, Undefined)
     ELSE IF IfdOffsetTooSmall(firstIFDOffset)
     THEN Return(b, s, <<r1, r2, r3>>, 115, Undefined)
     ELSE IF IfdTruncated(b, ifdOffset)
     THEN Return(b, s, <<r1, r2, r3>>, 120, Undefined)
     ELSE Issue(b, s, <<r1, r2, r3, r4>>,
                [s EXCEPT !.pc = "entry", !.littleEndian = littleEndian,
                          !.ifdOffset = ifdOffset, !.i = 0,
                          !.entries = getUint16(b, ifdOffset, littleEndian)])

(* utils.ts:126 *)
EntryOffset(ifdOffset, i) == ifdOffset + 2 + i * EntrySize

(* utils.ts:129 *)
EntryTruncated(b, entryOffset) == entryOffset + EntrySize > Len(b)

StringTruncatedNoTerminator(b, dateStringOffset) ==
  dateStringOffset + DateChars > Len(b)

(* utils.ts:146 *)
StringTruncated(b, dateStringOffset) == dateStringOffset + DateCount > Len(b)

DateStringOffsetAbsolute(tiffOffset, dataOffset) == dataOffset

(* utils.ts:143: the value offset is relative to the TIFF header *)
DateStringOffset(tiffOffset, dataOffset) == tiffOffset + dataOffset

EntryValueBigEndian(b, entryOffset, littleEndian) ==
  getUint32(b, entryOffset + 8, FALSE)

(* utils.ts:131, 135, 136, 139: the fields of a directory entry, each read *)
(* in the byte order established at line 107.                              *)
EntryTag(b, entryOffset, littleEndian) == getUint16(b, entryOffset, littleEndian)
EntryType(b, entryOffset, littleEndian) ==
  getUint16(b, entryOffset + 2, littleEndian)
EntryCount(b, entryOffset, littleEndian) ==
  getUint32(b, entryOffset + 4, littleEndian)
EntryValue(b, entryOffset, littleEndian) ==
  getUint32(b, entryOffset + 8, littleEndian)

SkipRest(s) == [s EXCEPT !.i = s.entries]

(* utils.ts:125: i++, taken by every iteration that does not return *)
NextEntry(s) == [s EXCEPT !.i = s.i + 1]

IsDateOrDigitizedTag(tag) == tag = TagDateTimeOriginal \/ tag = 36868

(* utils.ts:134 *)
IsDateTag(tag) == tag = TagDateTimeOriginal

(* utils.ts:125-162: one iteration of the directory loop, or its exit *)
IfdEntry(b, s, engine) ==
  IF ~(s.i < s.entries) THEN Return(b, s, <<>>, 162, Undefined)
  ELSE
    LET le == s.littleEndian
        entryOffset == EntryOffset(s.ifdOffset, s.i)
        r1 == <<entryOffset, 2>>
        tag == EntryTag(b, entryOffset, le)
        r2 == <<entryOffset + 2, 2>>
        type == EntryType(b, entryOffset, le)
        r3 == <<entryOffset + 4, 4>>
        count == EntryCount(b, entryOffset, le)
        r4 == <<entryOffset + 8, 4>>
        dataOffset == EntryValue(b, entryOffset, le)
        dateStringOffset == DateStringOffset(s.tiffOffset, dataOffset)
        chars == [j \in 1..DateChars |-> <<dateStringOffset + j - 1, 1>>]
        dateStr == [j \in 1..DateChars |-> getUint8(b, dateStringOffset + j - 1)]
        value == ConvertDate(dateStr, engine)
        next == NextEntry(s)
    IN IF EntryTruncated(b, entryOffset) THEN Return(b, s, <<>>, 129, Undefined)
       ELSE IF ~IsDateTag(tag) THEN Issue(b, s, <<r1>>, next)
       ELSE IF ~(type = TypeAscii /\ count = DateCount)
       THEN Issue(b, s, <<r1, r2, r3, r4>>, next)
       ELSE IF StringTruncated(b, dateStringOffset)
       THEN Return(b, s, <<r1, r2, r3, r4>>, 146, Undefined)
       ELSE IF value.k = "continue"
       THEN Issue(b, s, <<r1, r2, r3, r4>> \o chars, next)
       ELSE Return(b, s, <<r1, r2, r3, r4>> \o chars, 157, value)

(* utils.ts:165-169 *)
CatchBlock(s) ==
  [s EXCEPT !.pc = "done", !.result = Undefined, !.ret = 168,
            !.status = "resolved"]

(* One stretch of the synchronous part of the call, by program counter. *)
Step(b, s, engine) ==
  CASE s.pc = "soi" -> CheckSOI(b, s)
    [] s.pc = "scan" -> ScanSegment(b, s)
    [] s.pc = "app1" -> App1Header(b, s)
    [] s.pc = "tiff" -> TiffHeader(b, s)
    [] s.pc = "entry" -> IfdEntry(b, s, engine)
    [] s.pc = "catch" -> CatchBlock(s)
    [] OTHER -> s

(* The whole call on an ArrayBuffer that was read successfully. *)
RECURSIVE RunFrom(_, _, _)
RunFrom(b, s, engine) ==
  IF s.pc = "done" THEN s ELSE RunFrom(b, Step(b, s, engine), engine)

ExifDateOfBuffer(b, engine) ==
  RunFrom(b, [InitEx EXCEPT !.pc = "soi"], engine).result

----------------------------------------------------------------------------
(* The files under test.  A file is produced from a description: the       *)
(* segments before the APP1 segment, the APP1 header, the Exif signature,  *)
(* the TIFF header, the directory and the bytes around it, then cut to a   *)
(* length and with one byte overwritten.  The producer writes every        *)
(* multi-byte TIFF field in the byte order `order`.                        *)

Enc16BE(v) == <<v \div 256, v % 256>>

Enc16(v, order) ==
  IF order = "II" THEN <<v % 256, v \div 256>> ELSE <<v \div 256, v % 256>>

Enc32(v, order) ==
  LET b0 == v % 256
      b1 == (v \div 256) % 256
      b2 == (v \div 65536) % 256
      b3 == v \div 16777216
  IN IF order = "II" THEN <<b0, b1, b2, b3>> ELSE <<b3, b2, b1, b0>>

RECURSIVE Flatten(_)
Flatten(ss) == IF ss = <<>> THEN <<>> ELSE Head(ss) \o Flatten(Tail(ss))

EncEntry(e, order) ==
  Enc16(e.tag, order) \o Enc16(e.type, order) \o Enc32(e.count, order)
  \o Enc32(e.value, order)

EncSegment(g) ==
  Enc16BE(g.marker) \o Enc16BE(g.len)
  \o Rep(IF g.len > 2 THEN g.len - 2 ELSE 0, 0)

D2(n) == <<ChZero + ((n \div 10) % 10), ChZero + (n % 10)>>
D4(n) == D2(n \div 100) \o D2(n % 100)

(* The 20 bytes of a timestamp value: 19 characters and a NUL.  dsep, mid  *)
(* and tsep are the separators written; bad > 0 overwrites character bad   *)
(* with the letter x.                                                      *)
EncDate(t) ==
  LET str == D4(t.y) \o <<t.dsep>> \o D2(t.mo) \o <<t.dsep>> \o D2(t.d)
             \o <<t.mid>> \o D2(t.h) \o <<t.tsep>> \o D2(t.mi) \o <<t.tsep>>
             \o D2(t.s)
  IN (IF t.bad > 0 THEN [str EXCEPT ![t.bad] = 120] ELSE str) \o <<0>>

TiffBytes(d) ==
  d.bom \o Enc16(d.magic, d.order) \o Enc32(d.ifdOff, d.order) \o d.gap
  \o Enc16(d.count, d.order)
  \o Flatten([k \in 1..Len(d.entries) |-> EncEntry(d.entries[k], d.order)])
  \o d.after

Encode(d) ==
  LET tiff == TiffBytes(d)
      segLen == IF d.segLen < 0 THEN 2 + Len(d.sig) + Len(tiff) ELSE d.segLen
      whole == Enc16BE(d.soi)
               \o Flatten([k \in 1..Len(d.pre) |-> EncSegment(d.pre[k])])
               \o Enc16BE(d.marker) \o Enc16BE(segLen) \o d.sig \o tiff
               \o d.trail
      cut == IF d.trunc < 0 \/ d.trunc > Len(whole) THEN whole
             ELSE SubSeq(whole, 1, d.trunc)
  IN IF d.corrupt # <<>> /\ d.corrupt[1] < Len(cut)
     THEN [cut EXCEPT ![d.corrupt[1] + 1] = d.corrupt[2]]
     ELSE cut

FileOf(d) == [type |-> d.type, bytes |-> Encode(d), readable |-> d.readable]

ExifBytes == <<69, 120, 105, 102, 0, 0>>
BomOf(order) == IF order = "II" THEN <<73, 73>> ELSE <<77, 77>>
Orders == {"II", "MM"}

GoodDate ==
  [y |-> 2024, mo |-> 3, d |-> 15, h |-> 10, mi |-> 30, s |-> 0,
   dsep |-> ChColon, mid |-> ChSpace, tsep |-> ChColon, bad |-> 0]

DateEntry(value) ==
  [tag |-> TagDateTimeOriginal, type |-> TypeAscii, count |-> DateCount,
   value |-> value]

(* A directory of the given entries at TIFF offset 8, followed by the      *)
(* next-directory pointer and the timestamp string, to which every entry   *)
(* written with value -1 points.                                           *)
Directory(order, entries, t) ==
  LET strAt == MinIFDOffset + 2 + EntrySize * Len(entries) + 4
  IN [type |-> "image/jpeg", readable |-> TRUE, soi |-> SOI, pre |-> <<>>,
      marker |-> APP1, segLen |-> -1, sig |-> ExifBytes, order |-> order,
      bom |-> BomOf(order), magic |-> TiffMagic, ifdOff |-> MinIFDOffset,
      gap |-> <<>>, count |-> Len(entries),
      entries |-> [k \in 1..Len(entries) |->
                     IF entries[k].value = -1
                     THEN [entries[k] EXCEPT !.value = strAt]
                     ELSE entries[k]],
      after |-> Enc32(0, order) \o EncDate(t), trail |-> <<>>,
      trunc |-> -1, corrupt |-> <<>>]

Base(order) == Directory(order, <<DateEntry(-1)>>, GoodDate)

(* The same file with the timestamp string between the TIFF header and the *)
(* directory, so that the directory is the last thing in the file.         *)
StringFirst(order, entries) ==
  [Directory(order, entries, GoodDate) EXCEPT
     !.ifdOff = MinIFDOffset + DateCount, !.gap = EncDate(GoodDate),
     !.entries = [k \in 1..Len(entries) |->
                    IF entries[k].value = -1
                    THEN [entries[k] EXCEPT !.value = MinIFDOffset]
                    ELSE entries[k]],
     !.after = <<>>]

(* Sequences of at most n elements of S. *)
RECURSIVE SeqsUpTo(_, _)
SeqsUpTo(S, n) ==
  IF n = 0 THEN {<<>>}
  ELSE LET shorter == SeqsUpTo(S, n - 1)
       IN shorter \cup {Append(q, x) : q \in shorter, x \in S}

(* Every prefix of a file: each truncation point from the empty file on. *)
Truncations(d) == {[d EXCEPT !.trunc = n] : n \in 0..Len(Encode(d))}

(* Every prefix of a file whose APP1 segment declares exactly the bytes    *)
(* that are left, so that the cut falls inside the payload of a segment    *)
(* that is itself inside the buffer.                                       *)
ShortSegments(d) ==
  {[d EXCEPT !.trunc = n, !.segLen = n - 4] : n \in 6..Len(Encode(d))}

(* Every single byte of a file overwritten with 0x00, 0x01 or 0xFF. *)
Corruptions(d) ==
  {[d EXCEPT !.corrupt = <<pos, val>>] :
     pos \in 0..(Len(Encode(d)) - 1), val \in {0, 1, 255}}

OtherEntry ==
  [tag |-> TagMake, type |-> TypeAscii, count |-> 6, value |-> -1]

ModelEntry == [OtherEntry EXCEPT !.tag = TagModel]

(* 0x9003 entries that hold no timestamp: a value offset outside the file, *)
(* or a type that is not ASCII.                                            *)
BadDateEntries == {DateEntry(1000), [DateEntry(-1) EXCEPT !.type = 7]}

EntryKinds ==
  {DateEntry(-1), [DateEntry(-1) EXCEPT !.type = 7],
   [DateEntry(-1) EXCEPT !.count = 19], DateEntry(1000), DateEntry(0),
   OtherEntry, [OtherEntry EXCEPT !.tag = 36868, !.count = DateCount]}

PreKinds ==
  {[marker |-> 65504, len |-> 4], [marker |-> 65504, len |-> 2],
   [marker |-> 65499, len |-> 0], [marker |-> 65499, len |-> 1],
   [marker |-> SOS, len |-> 2], [marker |-> 65504, len |-> 100],
   [marker |-> APP1, len |-> 4]}

Dates ==
  {GoodDate,
   [GoodDate EXCEPT !.y = 1999, !.mo = 12, !.d = 31, !.h = 23, !.mi = 59, !.s = 59],
   [GoodDate EXCEPT !.mo = 2, !.d = 29, !.h = 0, !.mi = 0],
   [GoodDate EXCEPT !.y = 1970, !.mo = 1, !.d = 1, !.h = 0, !.mi = 0],
   [GoodDate EXCEPT !.y = 9999, !.mo = 12, !.d = 31],
   [GoodDate EXCEPT !.y = 1900, !.mo = 2, !.d = 28],
   [GoodDate EXCEPT !.mo = 13],
   [GoodDate EXCEPT !.y = 0, !.mo = 0, !.d = 0, !.h = 0, !.mi = 0],
   [GoodDate EXCEPT !.d = 32],
   [GoodDate EXCEPT !.mo = 2, !.d = 30],
   [GoodDate EXCEPT !.y = 1900, !.mo = 2, !.d = 29],
   [GoodDate EXCEPT !.mo = 4, !.d = 31],
   [GoodDate EXCEPT !.h = 24, !.mi = 0],
   [GoodDate EXCEPT !.h = 24],
   [GoodDate EXCEPT !.h = 25],
   [GoodDate EXCEPT !.mi = 60],
   [GoodDate EXCEPT !.s = 60],
   [GoodDate EXCEPT !.dsep = ChDash],
   [GoodDate EXCEPT !.dsep = ChDash, !.mid = ChT],
   [GoodDate EXCEPT !.mid = ChT],
   [GoodDate EXCEPT !.mid = 95],
   [GoodDate EXCEPT !.tsep = ChDash],
   [GoodDate EXCEPT !.dsep = ChDash, !.tsep = ChDash],
   [GoodDate EXCEPT !.dsep = 47],
   [GoodDate EXCEPT !.bad = 1],
   [GoodDate EXCEPT !.bad = 6],
   [GoodDate EXCEPT !.bad = 12],
   [GoodDate EXCEPT !.bad = 19]}

TruncInputs ==
  UNION {Truncations(d) :
           d \in {Base(o) : o \in Orders}
                 \cup {StringFirst(o, <<DateEntry(-1)>>) : o \in Orders}
                 \cup {StringFirst(o, <<DateEntry(-1), OtherEntry>>) : o \in Orders}}

ShortInputs ==
  UNION {ShortSegments(d) :
           d \in {Base(o) : o \in Orders}
                 \cup {StringFirst(o, <<DateEntry(-1), OtherEntry>>) : o \in Orders}}

CorruptInputs == UNION {Corruptions(Base(o)) : o \in Orders}

PreInputs ==
  {[Base(o) EXCEPT !.pre = q] : o \in Orders, q \in SeqsUpTo(PreKinds, MaxPre)}

DateInputs ==
  {Directory(o, <<DateEntry(-1)>>, t) : o \in Orders, t \in Dates}

EntryInputs ==
  UNION {{[d EXCEPT !.count = Len(q) + extra] :
            d \in {Directory(o, q, GoodDate), StringFirst(o, q)}}
         : o \in Orders, q \in SeqsUpTo(EntryKinds, MaxEntries), extra \in {0, 1}}

HeaderInputs ==
  UNION {LET d == Base(o)
             full == Len(Encode(d)) - 4
         IN {[d EXCEPT !.sig = g] :
               g \in {<<69, 120, 105, 102, 0, 1>>, <<69, 120, 105, 102, 1, 0>>,
                      <<74, 70, 73, 70, 0, 0>>}}
            \cup {[d EXCEPT !.bom = m] : m \in {<<73, 73>>, <<77, 77>>, <<0, 0>>, <<73, 77>>}}
            \cup {[d EXCEPT !.magic = m] : m \in {0, 43, 10752}}
            \cup {[d EXCEPT !.ifdOff = f] : f \in {0, 7, 9, 12, 1000}}
            \cup {[d EXCEPT !.ifdOff = 9, !.gap = <<0>>,
                            !.entries = <<DateEntry(d.entries[1].value + 1)>>]}
            \cup {[d EXCEPT !.count = c] : c \in {0, 2, 3, 65535}}
            \cup {[d EXCEPT !.marker = m] : m \in {65504, 65506, SOS}}
            \cup {[d EXCEPT !.soi = v, !.trunc = n] :
                    v \in {SOI, 65497, 55551, 216}, n \in 0..4}
            \cup {[d EXCEPT !.segLen = n, !.trail = Rep(k, 0)] :
                    n \in {0, 2, 7, 8, 16, full - 1, full, full + 1, full + MaxTrail,
                           full + MaxTrail + 1, 65535},
                    k \in 0..MaxTrail}
         : o \in Orders}

(* Directories of a make entry, a model entry and a 0x9003 entry that is   *)
(* corrupted or whose string is no date, in either position.               *)
FieldInputs ==
  UNION {{Directory(o, <<e, OtherEntry, ModelEntry>>, GoodDate),
          Directory(o, <<OtherEntry, ModelEntry, e>>, GoodDate)}
         : o \in Orders, e \in BadDateEntries}
  \cup {Directory(o, <<OtherEntry, ModelEntry, DateEntry(-1)>>,
                   [GoodDate EXCEPT !.bad = 6]) : o \in Orders}

FileInputs ==
  {[Base("II") EXCEPT !.type = t] : t \in {"image/jpg", "image/png", ""}}
  \cup {[Base(o) EXCEPT !.readable = FALSE] : o \in Orders}

Inputs ==
  TruncInputs \cup ShortInputs \cup CorruptInputs \cup PreInputs \cup DateInputs
  \cup EntryInputs \cup HeaderInputs \cup FieldInputs \cup FileInputs

(* The files parsed between two parses of the file under test. *)
OtherInputs == {Base("MM"), [Base("II") EXCEPT !.trunc = 30]}

----------------------------------------------------------------------------
(* App (src/unnamed/part_001): the photos state and the callbacks that     *)
(* deliver the lazily loaded dimensions and EXIF date.                     *)

Null == [k |-> "null"]

(* part_001:367: the FileSystemDirectoryHandle of a picked directory *)
DirectoryHandle(dir) == [k |-> "handle", name |-> dir]

(* part_001:323, 387: `photo-${Date.now()}-${index}`; two ids are the same *)
(* string exactly when time and index are the same.                        *)
PhotoId(t, index) == <<t, index>>

(* part_001:322-331, 386-396: a Photo as the loaders build it; file is the *)
(* name of the File it holds.  dateTaken, dimensions and exif are absent.  *)
NewPhoto(id, name) ==
  [id |-> id, file |-> name, name |-> name, fileHandle |-> Undefined,
   dateTaken |-> Undefined, dimensions |-> Undefined, exif |-> Undefined]

(* part_001:388: fileHandle: entry, the FileSystemFileHandle of an entry   *)
(* of the directory dir.                                                   *)
FileHandle(dir) == [k |-> "file", dir |-> dir]

(* The local instant whose getTime() is 0, on a host in the UTC zone. *)
ZeroInstant == [day |-> 0, sec |-> 0]

(* part_001:346: if (dateTaken); undefined and 0 are falsy *)
Truthy(v) == v.k = "number" /\ v.v # ZeroInstant

(* part_001:347: prev.map(ph => ph.id === p.id ? { ...ph, dateTaken } : ph) *)
SetDateTaken(photos, id, dateTaken) ==
  [k \in DOMAIN photos |->
     IF photos[k].id = id THEN [photos[k] EXCEPT !.dateTaken = dateTaken]
     ELSE photos[k]]

(* part_001:342 *)
SetDimensions(photos, id, dims) ==
  [k \in DOMAIN photos |->
     IF photos[k].id = id THEN [photos[k] EXCEPT !.dimensions = dims]
     ELSE photos[k]]

ThenExifDateOrDefault(photos, id, dateTaken) ==
  SetDateTaken(photos, id, IF dateTaken.k = "number" THEN dateTaken
                           ELSE Num(ZeroInstant))

(* part_001:345-349: the callback of getExifDate(p.file) *)
ThenExifDate(photos, id, dateTaken) ==
  IF Truthy(dateTaken) THEN SetDateTaken(photos, id, dateTaken) ELSE photos

(* A file name: the part before the last '.', as a sequence of pieces, and *)
(* the part after it.                                                      *)
Name(stem, ext) == [stem |-> <<stem>>, ext |-> ext]

(* The directories the user can pick, and the entries each holds when the  *)
(* program starts, in the order they are enumerated in.  Both hold a file  *)
(* of the same name.                                                       *)
Folders == {"A", "B"}

EntriesOf(dir) ==
  IF dir = "A" THEN <<Name("a", "jpg"), Name("notes", "txt")>>
  ELSE <<Name("a", "jpg")>>

(* A file of a directory: its name, and the file it was when the page    *)
(* was opened, which stands for its bytes and dates.                       *)
DiskFile(name) == [name |-> name, file |-> name]

NamesIn(entries) == {entries[k].name : k \in DOMAIN entries}

InitDisk ==
  [dir \in Folders |->
     [k \in DOMAIN EntriesOf(dir) |-> DiskFile(EntriesOf(dir)[k])]]

(* The state of App after mounting: no photos, nothing selected. *)
InitApp ==
  [photos |-> <<>>, selectedIds |-> {}, directoryHandle |-> Null,
   isRenameModalOpen |-> FALSE, isDeleteModalOpen |-> FALSE,
   quickLookPhoto |-> Null]

(* No load has been started and no promise is pending.  picked is the     *)
(* time at which the user last picked a folder or a file list; removed     *)
(* logs the calls of removeEntry made so far, renamed the batch renames    *)
(* that ran to their end, ignored whether a keydown event was delivered    *)
(* while the modal now shown was open (all three ghosts).                  *)
InitTasks ==
  [loads |-> 0, deletes |-> 0, renames |-> 0, picked |-> -1, pending |-> {},
   removed |-> {}, renamed |-> {}, ignored |-> FALSE]

----------------------------------------------------------------------------
(* The state machine: calls of getExifDate, one after the other, each for  *)
(* the one photo of a load, and the callback that takes its result.        *)

Init ==
  /\ \/ input \in Inputs /\ jsEngine = "strict"
     \/ input \in DateInputs /\ jsEngine = "lenient"
  /\ file = FileOf(input)
  /\ buffer = <<>>
  /\ ex = InitEx
  /\ calls = 1
  /\ first = [set |-> FALSE, input |-> input, result |-> Undefined,
              reads |-> {}, others |-> 0]
  /\ now = 0
  /\ app = [InitApp EXCEPT !.photos = <<NewPhoto(PhotoId(now, 0), "photo.jpg")>>]
  /\ tasks = InitTasks
  /\ disk = InitDisk

(* utils.ts:46: a call starts.  Its locals hold nothing of the previous    *)
(* call that the code reads: each is assigned by its declaration before    *)
(* its first use (offset at line 58, littleEndian at 107, i at 125).       *)
StartCall(s) ==
  [s EXCEPT !.pc = "type", !.result = Undefined, !.reads = {},
            !.app1At = -1, !.ret = 0, !.status = "pending"]

DoCheckType ==
  /\ ex.pc = "type"
  /\ ex' = CheckType(file, ex)
  /\ UNCHANGED <<jsEngine, input, file, buffer, calls, first, appVars>>

DoReadFile ==
  /\ ex.pc = "read"
  /\ IF file.readable
     THEN buffer' = SliceOf(file.bytes) /\ ex' = [ex EXCEPT !.pc = "soi"]
     ELSE buffer' = buffer /\ ex' = OnReadError(ex)
  /\ UNCHANGED <<jsEngine, input, file, calls, first, appVars>>

DoCheckSOI ==
  /\ ex.pc = "soi"
  /\ ex' = CheckSOI(buffer, ex)
  /\ UNCHANGED <<jsEngine, input, file, buffer, calls, first, appVars>>

DoScanSegment ==
  /\ ex.pc = "scan"
  /\ ex' = ScanSegment(buffer, ex)
  /\ UNCHANGED <<jsEngine, input, file, buffer, calls, first, appVars>>

DoApp1Header ==
  /\ ex.pc = "app1"
  /\ ex' = App1Header(buffer, ex)
  /\ UNCHANGED <<jsEngine, input, file, buffer, calls, first, appVars>>

DoTiffHeader ==
  /\ ex.pc = "tiff"
  /\ ex' = TiffHeader(buffer, ex)
  /\ UNCHANGED <<jsEngine, input, file, buffer, calls, first, appVars>>

DoIfdEntry ==
  /\ ex.pc = "entry"
  /\ ex' = IfdEntry(buffer, ex, jsEngine)
  /\ UNCHANGED <<jsEngine, input, file, buffer, calls, first, appVars>>

DoCatch ==
  /\ ex.pc = "catch"
  /\ ex' = CatchBlock(ex)
  /\ UNCHANGED <<jsEngine, input, file, buffer, calls, first, appVars>>

(* part_001:345-349: the promise has resolved and App's callback runs. *)
DoThen ==
  /\ ex.pc = "done"
  /\ ex' = [ex EXCEPT !.pc = "settled"]
  /\ app' = [app EXCEPT
              !.photos = ThenExifDate(app.photos, app.photos[1].id, ex.result)]
  /\ UNCHANGED <<jsEngine, input, file, buffer, calls, first, tasks, now, disk>>

(* The next load (part_001:334, 345): a new Photo for the file of the      *)
(* first call, or for another one, and a call of getExifDate on it.        *)
(* first keeps the outcome of the first call and whether another file has  *)
(* been parsed since.                                                      *)
NextCall ==
  /\ ex.pc = "settled"
  /\ calls < MaxCalls
  /\ LET orig == IF first.set THEN first.input ELSE input
     IN \E d \in {orig} \cup OtherInputs :
          /\ input' = d
          /\ first' = [set |-> TRUE, input |-> orig,
                       result |-> IF first.set THEN first.result ELSE ex.result,
                       reads |-> IF first.set THEN first.reads ELSE ex.reads,
                       others |-> IF d # orig THEN 1 ELSE first.others]
  /\ file' = FileOf(input')
  /\ buffer' = <<>>
  /\ ex' = StartCall(ex)
  /\ calls' = calls + 1
  /\ app' = [app EXCEPT
              !.photos = <<NewPhoto(PhotoId(now, 0), "photo.jpg")>>,
              !.selectedIds = {}]
  /\ UNCHANGED <<jsEngine, tasks, now, disk>>

Next ==
  \/ DoCheckType
  \/ DoReadFile
  \/ DoCheckSOI
  \/ DoScanSegment
  \/ DoApp1Header
  \/ DoTiffHeader
  \/ DoIfdEntry
  \/ DoCatch
  \/ DoThen
  \/ NextCall

Spec == Init /\ [][Next]_vars

----------------------------------------------------------------------------
(* App as a concurrent program: folder loads, selection, the keyboard,    *)
(* deletes, batch renames and the callbacks of the lazily started          *)
(* getImageDimensions and getExifDate promises, in every interleaving the  *)
(* event loop allows.  A handler run between two awaits is one step, with  *)
(* the state updates it makes applied together.                            *)

MaxLoads == 2
MaxDeletes == 1
MaxRenames == 1
MaxCommands == 2
MaxNow == 1

(* The files on disk, by name. *)
FileNamed(name) ==
  CASE name = Name("a", "jpg") -> FileOf(Base("II"))
    [] name = Name("b", "jpg") ->
         FileOf(Directory("MM", <<DateEntry(-1)>>,
                          [GoodDate EXCEPT !.y = 1999, !.mo = 12, !.d = 31]))
    [] name = Name("c", "jpg") -> FileOf(Directory("II", <<OtherEntry>>, GoodDate))
    [] name = Name("d", "png") -> [FileOf(Base("MM")) EXCEPT !.type = "image/png"]
    [] OTHER -> [type |-> "text/plain", bytes |-> <<>>, readable |-> TRUE]

(* The file lists the fallback input can deliver. *)
FileLists ==
  {<<Name("b", "jpg"), Name("notes", "txt"), Name("d", "png")>>,
   <<Name("notes", "txt")>>}

(* utils.ts:46-170: the value the promise of getExifDate(file) resolves to *)
getExifDate(f, engine) ==
  IF ~IsJpegType(f.type) \/ ~f.readable THEN Undefined
  ELSE ExifDateOfBuffer(SliceOf(f.bytes), engine)

(* The files a load can deliver, and what getExifDate resolves to for each  *)
(* of them, computed once.                                                 *)
FileNames ==
  UNION {Range(EntriesOf(dir)) : dir \in Folders}
  \cup UNION {Range(fileList) : fileList \in FileLists}

ExifDateOf ==
  [name \in FileNames, engine \in {"strict", "lenient"} |->
     getExifDate(FileNamed(name), engine)]

(* utils.ts:22-29: getImageDimensions resolves with the size of the        *)
(* decoded image, or rejects when the image cannot be decoded.             *)
getImageDimensions(name) ==
  CASE name = Name("a", "jpg") -> [k |-> "resolved", width |-> 4, height |-> 3]
    [] name = Name("b", "jpg") -> [k |-> "resolved", width |-> 2, height |-> 2]
    [] name = Name("d", "png") -> [k |-> "resolved", width |-> 1, height |-> 1]
    [] OTHER -> [k |-> "rejected"]

(* part_001:382 *)
HasImageExtension(name) ==
  name.ext \in {"jpg", "jpeg", "png", "gif", "webp", "svg"}

(* part_001:313: the media types of the files at hand that start with     *)
(* 'image/'                                                                *)
IsImageFile(name) ==
  FileNamed(name).type \in {"image/jpeg", "image/jpg", "image/png"}

(* Array.prototype.filter: the elements of q whose flag in keep is TRUE *)
RECURSIVE SelectSeq2(_, _)
SelectSeq2(q, keep) ==
  IF q = <<>> THEN <<>>
  ELSE IF keep[1] THEN <<Head(q)>> \o SelectSeq2(Tail(q), Tail(keep))
       ELSE SelectSeq2(Tail(q), Tail(keep))

(* part_001:313: fileList.filter(file => file.type.startsWith('image/')) *)
ImageFiles(fileList) ==
  SelectSeq2(fileList, [k \in 1..Len(fileList) |-> IsImageFile(fileList[k])])

RemoveNone(photos, selectedIds) == photos

(* part_001:102: prev.filter(p => !selectedIds.has(p.id)) *)
RemoveSelected(photos, selectedIds) ==
  SelectSeq2(photos, [k \in 1..Len(photos) |-> photos[k].id \notin selectedIds])

(* part_001:339-350, 406-415: the two promises started for every photo of  *)
(* a load; no is the number of the load that started them.                 *)
LazyLoads(no, newPhotos) ==
  {[kind |-> c, no |-> no, id |-> newPhotos[k].id, file |-> newPhotos[k].file]
     : k \in 1..Len(newPhotos), c \in {"dims", "exif"}}

(* Date.now() moves on. *)
Tick ==
  /\ now < MaxNow
  /\ now' = now + 1
  /\ UNCHANGED <<jsEngine, input, file, buffer, ex, calls, first, app, tasks, disk>>

RenameModalOpen(a) == a.isRenameModalOpen

(* part_001:238: a modal is shown *)
ModalOpen(a) == a.isRenameModalOpen \/ a.isDeleteModalOpen

(* Mouse events reach the toolbar and the grid: no modal and no quick look *)
(* covers them (part_003:73, part_004:21, part_002:95).                    *)
CanClick == ~ModalOpen(app) /\ app.quickLookPhoto = Null

(* The user has picked again: picking takes more than a millisecond. *)
(* The loads and the batch renames of a run are MaxCommands at most. *)
CanCommand == tasks.loads + tasks.renames < MaxCommands

CanPick ==
  tasks.loads < MaxLoads /\ CanCommand /\ tasks.picked < now /\ CanClick

(* part_001:291-351: processFiles runs from the change event to the start  *)
(* of the lazy loads without waiting for anything but resolved promises.   *)
processFiles ==
  /\ CanPick
  /\ \E fileList \in FileLists :
       LET imageFiles == ImageFiles(fileList)
           newPhotos == [k \in 1..Len(imageFiles) |->
                           NewPhoto(PhotoId(now, k - 1), imageFiles[k])]
           no == tasks.loads + 1
       IN IF imageFiles = <<>>
          THEN /\ app' = [app EXCEPT !.directoryHandle = Null]
               /\ tasks' = [tasks EXCEPT !.loads = no, !.picked = now]
          ELSE /\ app' = [app EXCEPT !.directoryHandle = Null,
                                      !.photos = newPhotos, !.selectedIds = {}]
               /\ tasks' = [tasks EXCEPT
                              !.loads = no, !.picked = now,
                              !.pending = tasks.pending \cup LazyLoads(no, newPhotos)]
  /\ UNCHANGED <<jsEngine, input, file, buffer, ex, calls, first, now, disk>>

(* part_001:361-376: the picker has resolved with a directory; the handle  *)
(* is stored and the enumeration starts.                                   *)
handleOpenDirectory ==
  /\ CanPick
  /\ \E dir \in Folders :
       /\ app' = [app EXCEPT !.directoryHandle = DirectoryHandle(dir)]
       /\ tasks' = [tasks EXCEPT
                      !.loads = tasks.loads + 1, !.picked = now,
                      !.pending = tasks.pending \cup
                        {[kind |-> "open", no |-> tasks.loads + 1, dir |-> dir,
                          entries |-> disk[dir], pos |-> 0,
                          newPhotos |-> <<>>]}]
  /\ UNCHANGED <<jsEngine, input, file, buffer, ex, calls, first, now, disk>>

(* part_001:379-399: one entry of the enumeration.  entry.getFile()       *)
(* rejects when the entry has left the directory in the meantime; the      *)
(* catch of line 419 then ends the load with nothing replaced.             *)
EnumerateEntry ==
  \E t \in tasks.pending :
    /\ t.kind = "open" /\ t.pos < Len(t.entries)
    /\ LET entry == t.entries[t.pos + 1]
           name == entry.name
           photo == [NewPhoto(PhotoId(now, Len(t.newPhotos)), name)
                       EXCEPT !.file = entry.file,
                              !.fileHandle = FileHandle(t.dir)]
           next == [t EXCEPT !.pos = t.pos + 1,
                             !.newPhotos = IF HasImageExtension(name)
                                           THEN Append(t.newPhotos, photo)
                                           ELSE t.newPhotos]
       IN tasks' = [tasks EXCEPT !.pending =
                      IF HasImageExtension(name) /\ name \notin NamesIn(disk[t.dir])
                      THEN tasks.pending \ {t}
                      ELSE (tasks.pending \ {t}) \cup {next}]
    /\ UNCHANGED <<jsEngine, input, file, buffer, ex, calls, first, app, now, disk>>

(* part_001:401-417: the enumeration is over *)
FinishOpenDirectory ==
  \E t \in tasks.pending :
    /\ t.kind = "open" /\ t.pos = Len(t.entries)
    /\ app' = [app EXCEPT !.photos = t.newPhotos, !.selectedIds = {}]
    /\ tasks' = [tasks EXCEPT !.pending =
                   (tasks.pending \ {t}) \cup LazyLoads(t.no, t.newPhotos)]
    /\ UNCHANGED <<jsEngine, input, file, buffer, ex, calls, first, now, disk>>

(* part_001:345-349: the promise of getExifDate(p.file) resolves *)
ResolveExifDate ==
  \E t \in tasks.pending :
    /\ t.kind = "exif"
    /\ app' = [app EXCEPT !.photos =
                 ThenExifDate(app.photos, t.id,
                              ExifDateOf[t.file, jsEngine])]
    /\ tasks' = [tasks EXCEPT !.pending = tasks.pending \ {t}]
    /\ UNCHANGED <<jsEngine, input, file, buffer, ex, calls, first, now, disk>>

(* part_001:341-343: the promise of getImageDimensions(p.file) resolves,   *)
(* or rejects with no handler attached.                                    *)
ResolveDimensions ==
  \E t \in tasks.pending :
    /\ t.kind = "dims"
    /\ LET dims == getImageDimensions(t.file)
       IN app' = [app EXCEPT !.photos =
                    IF dims.k = "resolved"
                    THEN SetDimensions(app.photos, t.id,
                                       [width |-> dims.width, height |-> dims.height])
                    ELSE app.photos]
    /\ tasks' = [tasks EXCEPT !.pending = tasks.pending \ {t}]
    /\ UNCHANGED <<jsEngine, input, file, buffer, ex, calls, first, now, disk>>

(* part_001:430-441 *)
handleToggleSelect ==
  \E k \in DOMAIN app.photos, multiSelect \in BOOLEAN :
    LET id == app.photos[k].id
        newSet == IF multiSelect THEN app.selectedIds ELSE {}
    IN /\ CanClick
       /\ app' = [app EXCEPT !.selectedIds =
                     IF id \in newSet
                     THEN (IF multiSelect THEN newSet \ {id} ELSE newSet \cup {id})
                     ELSE newSet \cup {id}]
       /\ UNCHANGED <<jsEngine, input, file, buffer, ex, calls, first, tasks, now, disk>>

(* part_001:57-60, from the toolbar or the context menu *)
handleInitiateDelete ==
  /\ CanClick
  /\ app.selectedIds # {}
  /\ app' = [app EXCEPT !.isDeleteModalOpen = TRUE]
  /\ UNCHANGED <<jsEngine, input, file, buffer, ex, calls, first, tasks, now, disk>>

(* part_001:666: Cancel *)
closeDeleteModal ==
  /\ app.isDeleteModalOpen
  /\ app' = [app EXCEPT !.isDeleteModalOpen = FALSE]
  /\ tasks' = [tasks EXCEPT !.ignored = FALSE]
  /\ UNCHANGED <<jsEngine, input, file, buffer, ex, calls, first, now, disk>>

(* The photos array a handler closes over, with the fields of a photo     *)
(* that handleConfirmDelete and handleBatchRename read.                    *)
Captured(photos) ==
  [k \in DOMAIN photos |->
     [id |-> photos[k].id, name |-> photos[k].name,
      fileHandle |-> photos[k].fileHandle]]

(* part_001:81: photos.find(p => p.id === id), for an id that is found *)
FindPhoto(photos, id) ==
  photos[Min({k \in DOMAIN photos : photos[k].id = id})]

(* Array.prototype.filter on a directory listing: the entries but name *)
WithoutEntry(entries, name) ==
  SelectSeq2(entries, [k \in 1..Len(entries) |-> entries[k].name # name])

DeleteDoneKeepsSelection(a, selectedIds) ==
  [a EXCEPT !.photos = RemoveSelected(a.photos, selectedIds)]

(* part_001:101-103: the state update that ends a delete *)
DeleteDone(a, selectedIds) ==
  [a EXCEPT !.photos = RemoveSelected(a.photos, selectedIds),
            !.selectedIds = {}]

(* part_001:63-79: the delete is confirmed.  The handler closes the modal; *)
(* with nothing selected it returns, without a directory handle it runs to *)
(* its end, and with one it waits for verifyPermission, holding the        *)
(* selectedIds, directoryHandle and photos of the render it was made in.   *)
handleConfirmDelete ==
  /\ app.isDeleteModalOpen
  /\ tasks.deletes < MaxDeletes
  /\ LET closed == [app EXCEPT !.isDeleteModalOpen = FALSE]
     IN IF app.selectedIds = {}
        THEN /\ app' = closed
             /\ tasks' = [tasks EXCEPT !.deletes = tasks.deletes + 1,
                                        !.ignored = FALSE]
        ELSE IF app.directoryHandle = Null
        THEN /\ app' = DeleteDone(closed, app.selectedIds)
             /\ tasks' = [tasks EXCEPT !.deletes = tasks.deletes + 1,
                                        !.ignored = FALSE]
        ELSE /\ app' = closed
             /\ tasks' = [tasks EXCEPT
                            !.deletes = tasks.deletes + 1, !.ignored = FALSE,
                            !.pending = tasks.pending \cup
                              {[kind |-> "delete", stage |-> "permission",
                                selectedIds |-> app.selectedIds,
                                directoryHandle |-> app.directoryHandle,
                                photos |-> Captured(app.photos), todo |-> {}]}]
  /\ UNCHANGED <<jsEngine, input, file, buffer, ex, calls, first, now, disk>>

(* part_001:39-54, 70-81: verifyPermission resolves.  Denied: a toast, and *)
(* the handler returns.  Granted: the loop starts and calls removeEntry    *)
(* for the first selected id that photos holds, or, when it holds none,    *)
(* runs through to the state update.                                       *)
VerifyDeletePermission ==
  \E t \in tasks.pending, hasPermission \in BOOLEAN :
    /\ t.kind = "delete" /\ t.stage = "permission"
    /\ LET todo == {id \in t.selectedIds :
                     \E k \in DOMAIN t.photos : t.photos[k].id = id}
       IN IF ~hasPermission
          THEN /\ app' = app
               /\ tasks' = [tasks EXCEPT !.pending = tasks.pending \ {t}]
          ELSE IF todo = {}
          THEN /\ app' = DeleteDone(app, t.selectedIds)
               /\ tasks' = [tasks EXCEPT !.pending = tasks.pending \ {t}]
          ELSE /\ app' = app
               /\ tasks' = [tasks EXCEPT !.pending =
                              (tasks.pending \ {t})
                              \cup {[t EXCEPT !.stage = "remove", !.todo = todo]}]
    /\ UNCHANGED <<jsEngine, input, file, buffer, ex, calls, first, now, disk>>

(* part_001:83-92, 101-103: directoryHandle.removeEntry(photo.name)        *)
(* settles: the entry is gone, or the call rejected (no such entry, or the *)
(* file could not be removed) and the error was counted.  After the last   *)
(* one the state is updated.                                               *)
RemoveEntry ==
  \E t \in tasks.pending, ok \in BOOLEAN :
    /\ t.kind = "delete" /\ t.stage = "remove"
    /\ \E id \in t.todo :
         LET photo == FindPhoto(t.photos, id)
             dir == t.directoryHandle.name
             removed == ok /\ photo.name \in NamesIn(disk[dir])
             call == [directoryHandle |-> t.directoryHandle, id |-> id,
                      name |-> photo.name, fileHandle |-> photo.fileHandle,
                      removed |-> removed]
             rest == t.todo \ {id}
         IN /\ disk' = IF removed
                       THEN [disk EXCEPT ![dir] = WithoutEntry(disk[dir], photo.name)]
                       ELSE disk
            /\ app' = IF rest = {} THEN DeleteDone(app, t.selectedIds) ELSE app
            /\ tasks' = [tasks EXCEPT
                           !.removed = tasks.removed \cup {call},
                           !.pending =
                             IF rest = {} THEN tasks.pending \ {t}
                             ELSE (tasks.pending \ {t})
                                  \cup {[t EXCEPT !.todo = rest]}]
    /\ UNCHANGED <<jsEngine, input, file, buffer, ex, calls, first, now>>

(* file.lastModified of the files at hand *)
LastModified(name) ==
  CASE name = Name("a", "jpg") -> 30
    [] name = Name("b", "jpg") -> 20
    [] name = Name("d", "png") -> 20
    [] OTHER -> 10

(* part_001:121-145 with the sortConfig of line 19 (dateModified, desc)    *)
(* and the category 'all': Array.prototype.sort is stable, so photos of    *)
(* the same date keep their order.                                         *)
RECURSIVE sortedPhotos(_)
sortedPhotos(photos) ==
  IF photos = <<>> THEN <<>>
  ELSE LET n == Len(photos)
           p == photos[n]
           front == sortedPhotos(SubSeq(photos, 1, n - 1))
           before == {k \in 1..(n - 1) :
                        LastModified(front[k].file) >= LastModified(p.file)}
           at == IF before = {} THEN 0 ELSE Cardinality(before)
       IN SubSeq(front, 1, at) \o <<p>> \o SubSeq(front, at + 1, n - 1)

Ids(photos) == {photos[k].id : k \in DOMAIN photos}

(* part_001:466-477 *)
handleSelectAll ==
  /\ CanClick
  /\ LET sorted == sortedPhotos(app.photos)
         allSelected == \A k \in DOMAIN sorted : sorted[k].id \in app.selectedIds
     IN app' = IF sorted = <<>> THEN app
               ELSE [app EXCEPT !.selectedIds =
                       IF allSelected THEN {} ELSE Ids(sorted)]
  /\ UNCHANGED <<jsEngine, input, file, buffer, ex, calls, first, tasks, now, disk>>

(* part_001:166-181: a right click on a photo of the grid *)
handleContextMenu ==
  /\ CanClick
  /\ \E k \in DOMAIN app.photos :
       app' = IF app.photos[k].id \notin app.selectedIds
              THEN [app EXCEPT !.selectedIds = {app.photos[k].id}]
              ELSE app
  /\ UNCHANGED <<jsEngine, input, file, buffer, ex, calls, first, tasks, now, disk>>

(* The photo shown by the quick look, as App uses it: by its id. *)
QuickLook(id) == [k |-> "photo", id |-> id]

(* part_001:148-151 *)
quickLookIndex(a) ==
  LET sorted == sortedPhotos(a.photos)
      found == {k \in DOMAIN sorted :
                  a.quickLookPhoto = QuickLook(sorted[k].id)}
  IN IF a.quickLookPhoto = Null \/ found = {} THEN -1 ELSE Min(found) - 1

(* part_001:153-157 *)
handleNextPhoto(a) ==
  LET sorted == sortedPhotos(a.photos)
      index == quickLookIndex(a)
  IN IF index # -1 /\ index < Len(sorted) - 1
     THEN [a EXCEPT !.quickLookPhoto = QuickLook(sorted[index + 2].id)]
     ELSE a

(* part_001:159-163 *)
handlePrevPhoto(a) ==
  LET sorted == sortedPhotos(a.photos)
      index == quickLookIndex(a)
  IN IF index > 0
     THEN [a EXCEPT !.quickLookPhoto = QuickLook(sorted[index].id)]
     ELSE a

(* The keys the handler tells apart; "a" stands for Ctrl+A and Cmd+A. *)
Keys ==
  {"Space", "Escape", "ArrowRight", "ArrowLeft", "Delete", "Backspace", "a"}

(* part_001:236-285: handleKeyDown, on the state of the render the effect  *)
(* of line 235 last ran for.  firstSelectedId is Array.from(selectedIds)[0] *)
(* and tagName that of document.activeElement.                             *)
handleKeyDown(a, key, firstSelectedId, tagName) ==
  IF ModalOpen(a) THEN a
  ELSE
    CASE key = "Space" ->
           IF a.quickLookPhoto # Null THEN [a EXCEPT !.quickLookPhoto = Null]
           ELSE IF a.selectedIds # {} /\ firstSelectedId \in Ids(a.photos)
           THEN [a EXCEPT !.quickLookPhoto = QuickLook(firstSelectedId)]
           ELSE a
      [] key = "Escape" ->
           IF a.quickLookPhoto # Null THEN [a EXCEPT !.quickLookPhoto = Null]
           ELSE IF a.selectedIds # {} THEN [a EXCEPT !.selectedIds = {}]
           ELSE a
      [] key = "ArrowRight" ->
           IF a.quickLookPhoto # Null THEN handleNextPhoto(a) ELSE a
      [] key = "ArrowLeft" ->
           IF a.quickLookPhoto # Null THEN handlePrevPhoto(a) ELSE a
      [] key \in {"Delete", "Backspace"} ->
           IF /\ tagName \notin {"INPUT", "TEXTAREA"}
              /\ a.selectedIds # {} /\ a.quickLookPhoto = Null
           THEN [a EXCEPT !.isDeleteModalOpen = TRUE]
           ELSE a
      [] key = "a" ->
           IF a.photos # <<>>
           THEN [a EXCEPT !.selectedIds =
                   IF Cardinality(Ids(a.photos)) = Cardinality(a.selectedIds)
                   THEN {} ELSE Ids(a.photos)]
           ELSE a

(* The ids that can be the first of the selection, or no id at all. *)
FirstSelected(a) ==
  IF a.selectedIds = {} THEN {PhotoId(-1, 0)} ELSE a.selectedIds

(* A keydown event arrives at the window. *)
KeyDown ==
  /\ \E key \in Keys, firstSelectedId \in FirstSelected(app),
        tagName \in {"BODY", "INPUT"} :
       app' = handleKeyDown(app, key, firstSelectedId, tagName)
  /\ tasks' = [tasks EXCEPT !.ignored = tasks.ignored \/ ModalOpen(app)]
  /\ UNCHANGED <<jsEngine, input, file, buffer, ex, calls, first, now, disk>>

(* part_001:624: the toolbar's rename button, enabled by canRename *)
openRenameModal ==
  /\ CanClick
  /\ app.selectedIds # {}
  /\ app' = [app EXCEPT !.isRenameModalOpen = TRUE]
  /\ UNCHANGED <<jsEngine, input, file, buffer, ex, calls, first, tasks, now, disk>>

(* part_001:657: Cancel *)
closeRenameModal ==
  /\ app.isRenameModalOpen
  /\ app' = [app EXCEPT !.isRenameModalOpen = FALSE]
  /\ tasks' = [tasks EXCEPT !.ignored = FALSE]
  /\ UNCHANGED <<jsEngine, input, file, buffer, ex, calls, first, now, disk>>

(* part_003:28-35, 96-103: the options the modal's confirm button hands    *)
(* over.  The number field has min="0" and its value goes through parseInt. *)
StartNumbers == {0, 1}

SequenceOptions(startNumber) ==
  [mode |-> "sequence", prefix |-> "Photo_", startNumber |-> startNumber,
   findText |-> "", replaceText |-> "", useRegex |-> FALSE]

ReplaceOptions(findText, replaceText, useRegex) ==
  [mode |-> "replace", prefix |-> "Photo_", startNumber |-> 1,
   findText |-> findText, replaceText |-> replaceText, useRegex |-> useRegex]

RenameOptionsSet ==
  {SequenceOptions(n) : n \in StartNumbers}
  \cup {ReplaceOptions("a", "z", FALSE), ReplaceOptions("(", "z", TRUE)}

(* Number.prototype.toString, as the sequence of its characters *)
Digit(d) == <<"0", "1", "2", "3", "4", "5", "6", "7", "8", "9">>[d + 1]

RECURSIVE toString(_)
toString(n) ==
  IF n < 10 THEN <<Digit(n)>> ELSE toString(n \div 10) \o <<Digit(n % 10)>>

(* String.prototype.padStart(targetLength, padString), one-character pad *)
padStart(str, targetLength, padString) ==
  IF Len(str) >= targetLength THEN str
  ELSE Rep(targetLength - Len(str), padString) \o str

(* part_003:37-39: the name the modal shows as the preview *)
getPreview(prefix, startNumber) ==
  [stem |-> <<prefix>> \o padStart(toString(startNumber), 3, "0"),
   ext |-> "jpg"]

(* part_001:493: options.startNumber || 1; 0 is falsy *)
StartNumberOf(options) ==
  IF options.startNumber = 0 THEN 1 ELSE options.startNumber

(* part_001:516-517 *)
SequenceName(prefix, currentNumber, name) ==
  [stem |-> <<prefix>> \o padStart(toString(currentNumber), 3, "0"),
   ext |-> name.ext]

(* part_001:499-508: new RegExp(findText, 'g') throws *)
InvalidRegex(options) ==
  options.mode = "replace" /\ options.useRegex /\ options.findText = "("

(* part_001:524, 529: name.includes(findText), for a findText that is one  *)
(* of the pieces a name is written with here.                              *)
Includes(name, findText) ==
  findText \in Range(name.stem) \/ findText = name.ext

(* part_001:525, 530: every occurrence replaced *)
ReplaceAll(name, findText, replaceText) ==
  [stem |-> [k \in DOMAIN name.stem |->
               IF name.stem[k] = findText THEN replaceText ELSE name.stem[k]],
   ext |-> IF name.ext = findText THEN replaceText ELSE name.ext]

(* part_001:575-588: prev.map over the first update of each id *)
ApplyUpdates(a, updates) ==
  [a EXCEPT !.photos =
     [k \in DOMAIN a.photos |->
        LET found == {j \in DOMAIN updates : updates[j].id = a.photos[k].id}
        IN IF found = {} THEN a.photos[k]
           ELSE [a.photos[k] EXCEPT !.name = updates[Min(found)].newName]]]

(* part_001:511-572: the loop over the photos of the render, from the     *)
(* photo at t.pos up to the next await (stage "move") or to its end.       *)
RECURSIVE RenameLoop(_)
RenameLoop(t) ==
  IF t.pos > Len(t.photos) THEN [t EXCEPT !.stage = "end"]
  ELSE
    LET photo == t.photos[t.pos]
        sequence == t.options.mode = "sequence"
        found == Includes(photo.name, t.options.findText)
        newName == IF sequence
                   THEN SequenceName(t.options.prefix, t.currentNumber, photo.name)
                   ELSE IF found
                   THEN ReplaceAll(photo.name, t.options.findText,
                                   t.options.replaceText)
                   ELSE photo.name
        counted == [t EXCEPT !.currentNumber =
                      IF sequence THEN t.currentNumber + 1 ELSE t.currentNumber]
        skip == [counted EXCEPT !.pos = t.pos + 1]
    IN IF photo.id \notin t.selectedIds THEN RenameLoop([t EXCEPT !.pos = t.pos + 1])
       ELSE IF newName = photo.name THEN RenameLoop(skip)
       ELSE IF photo.fileHandle # Undefined
       THEN [counted EXCEPT !.stage = "move", !.newName = newName]
       ELSE RenameLoop([skip EXCEPT !.updates =
                          Append(t.updates, [id |-> photo.id, newName |-> newName])])

(* part_001:493-509: the loop starts, unless the pattern does not compile *)
StartRename(t) ==
  IF InvalidRegex(t.options) THEN [t EXCEPT !.stage = "invalid"]
  ELSE RenameLoop([t EXCEPT !.currentNumber = StartNumberOf(t.options)])

(* part_001:574-588: the state update of a rename that ran to its end *)
RenamedApp(a, t) ==
  IF t.stage = "end" THEN ApplyUpdates(a, t.updates) ELSE a

(* The handler t, which took the place of the tasks in old, waits for a   *)
(* move or is over; a rename that ran to its end is logged.                *)
RenamedTasks(ts, old, t) ==
  [ts EXCEPT
     !.pending = (ts.pending \ old) \cup (IF t.stage = "move" THEN {t} ELSE {}),
     !.renamed = IF t.stage = "end"
                 THEN ts.renamed \cup
                        {[options |-> t.options, selectedIds |-> t.selectedIds,
                          photos |-> t.photos, updates |-> t.updates]}
                 ELSE ts.renamed]

(* part_001:481-509: the modal's confirm button.  With a directory handle  *)
(* the handler first awaits verifyPermission; without one it runs up to    *)
(* its first move, or to its end.                                          *)
handleBatchRename ==
  /\ app.isRenameModalOpen
  /\ tasks.renames < MaxRenames /\ CanCommand
  /\ \E options \in RenameOptionsSet :
       LET closed == [app EXCEPT !.isRenameModalOpen = FALSE]
           t0 == [kind |-> "rename", stage |-> "permission", options |-> options,
                  selectedIds |-> app.selectedIds,
                  photos |-> Captured(app.photos), pos |-> 1,
                  currentNumber |-> 0, updates |-> <<>>,
                  newName |-> Undefined]
           counted == [tasks EXCEPT !.renames = tasks.renames + 1,
                                    !.ignored = FALSE]
       IN IF app.directoryHandle # Null
          THEN /\ app' = closed
               /\ tasks' = [counted EXCEPT !.pending = tasks.pending \cup {t0}]
          ELSE LET t == StartRename(t0)
               IN /\ app' = RenamedApp(closed, t)
                  /\ tasks' = RenamedTasks(counted, {}, t)
  /\ UNCHANGED <<jsEngine, input, file, buffer, ex, calls, first, now, disk>>

(* part_001:484-491: verifyPermission resolves *)
VerifyRenamePermission ==
  \E t \in tasks.pending, hasPermission \in BOOLEAN :
    /\ t.kind = "rename" /\ t.stage = "permission"
    /\ IF ~hasPermission
       THEN /\ app' = app
            /\ tasks' = [tasks EXCEPT !.pending = tasks.pending \ {t}]
       ELSE LET started == StartRename(t)
            IN /\ app' = RenamedApp(app, started)
               /\ tasks' = RenamedTasks(tasks, {t}, started)
    /\ UNCHANGED <<jsEngine, input, file, buffer, ex, calls, first, now, disk>>

(* FileSystemFileHandle.move(newName) within a directory: the entry takes  *)
(* the new name, in place of any entry that had it.                        *)
MovedEntry(entries, from, to) ==
  LET kept == SelectSeq2(entries,
                [k \in 1..Len(entries) |->
                   entries[k].name # to \/ entries[k].name = from])
  IN [k \in DOMAIN kept |->
        IF kept[k].name = from THEN [kept[k] EXCEPT !.name = to] ELSE kept[k]]

(* part_001:541-563: photo.fileHandle.move(newName) and then getFile()     *)
(* settle: both resolved ("moved"), move rejected or is no function        *)
(* ("rejected"), or the file was moved and getFile() rejected ("lost").    *)
(* The catch of line 560 counts a failure and the loop goes on.            *)
MoveFile ==
  \E t \in tasks.pending, outcome \in {"moved", "rejected", "lost"} :
    /\ t.kind = "rename" /\ t.stage = "move"
    /\ LET photo == t.photos[t.pos]
           dir == photo.fileHandle.dir
           present == photo.name \in NamesIn(disk[dir])
           moved == outcome # "rejected" /\ present
           next == [t EXCEPT
                      !.pos = t.pos + 1, !.stage = "run",
                      !.updates = IF moved /\ outcome = "moved"
                                  THEN Append(t.updates,
                                         [id |-> photo.id, newName |-> t.newName])
                                  ELSE t.updates]
           after == RenameLoop(next)
       IN /\ disk' = IF moved
                     THEN [disk EXCEPT ![dir] =
                             MovedEntry(disk[dir], photo.name, t.newName)]
                     ELSE disk
          /\ app' = RenamedApp(app, after)
          /\ tasks' = RenamedTasks(tasks, {t}, after)
    /\ UNCHANGED <<jsEngine, input, file, buffer, ex, calls, first, now>>

AppInit ==
  /\ jsEngine = "strict"
  /\ input = Base("II")
  /\ file = FileOf(input)
  /\ buffer = <<>>
  /\ ex = InitEx
  /\ calls = 0
  /\ first = [set |-> FALSE, input |-> input, result |-> Undefined,
              reads |-> {}, others |-> 0]
  /\ app = InitApp
  /\ tasks = InitTasks
  /\ now = 0
  /\ disk = InitDisk

AppNext ==
  \/ Tick
  \/ processFiles
  \/ handleOpenDirectory
  \/ EnumerateEntry
  \/ FinishOpenDirectory
  \/ ResolveExifDate
  \/ ResolveDimensions
  \/ handleToggleSelect
  \/ handleSelectAll
  \/ handleContextMenu
  \/ KeyDown
  \/ openRenameModal
  \/ closeRenameModal
  \/ handleBatchRename
  \/ VerifyRenamePermission
  \/ MoveFile
  \/ handleInitiateDelete
  \/ closeDeleteModal
  \/ handleConfirmDelete
  \/ VerifyDeletePermission
  \/ RemoveEntry

AppSpec == AppInit /\ [][AppNext]_vars

----------------------------------------------------------------------------
(* Properties of getExifDate.                                              *)

Done == ex.pc = "done"

(* The call has returned; its callback may have run ("settled"). *)
Returned == ex.pc \in {"done", "settled"}

(* The buffer the running call parses: the file was read and its media     *)
(* type is one the parser accepts.                                         *)
Parsing ==
  file.readable /\ IsJpegType(file.type)
  /\ ex.pc \notin {"type", "read", "settled"}

(* The same, also after the callback of App has taken the result. *)
Parsed ==
  file.readable /\ IsJpegType(file.type) /\ ex.pc \notin {"type", "read"}

(* C1: every DataView read the call issues lies inside the buffer: for a   *)
(* read of width w at offset o, 0 <= o and o + w <= buffer length; no read *)
(* ever throws, so the catch block is entered only when reading the file   *)
(* failed.                                                                 *)
C1_ReadsInBounds ==
  /\ \A r \in ex.reads : r[1] >= 0 /\ r[1] + r[2] <= Len(buffer)
  /\ ex.pc = "catch" => ~file.readable

(* A call that read the timestamp string up to the last byte of a buffer. *)
C1_Witness ==
  /\ Done /\ ex.ret = 157
  /\ \E r \in ex.reads : r[1] + r[2] = Len(buffer) - 1
  /\ Len(buffer) = Len(file.bytes)

(* C2: the promise of getExifDate is never rejected; when the call is over *)
(* it has resolved to a number or to undefined (never NaN), also when      *)
(* reading the file failed.                                                *)
C2_NeverRejects ==
  /\ ex.status # "rejected"
  /\ Returned => ex.status = "resolved" /\ ex.result.k \in {"number", "undefined"}
  /\ ~Returned => ex.status = "pending"

(* A call on a file that could not be read, resolved through the catch block. *)
C2_Witness ==
  Done /\ ~file.readable /\ ex.ret = 168 /\ ex.result = Undefined

NoStartMarker(b) == Len(b) < 2 \/ b[1] # 255 \/ b[2] # 216

(* C4: for a buffer shorter than 2 bytes or not starting with 0xFF 0xD8,   *)
(* the call reads nothing beyond the first two bytes (and nothing at all   *)
(* from a buffer shorter than 2 bytes), never enters the segment scan, and *)
(* returns undefined.                                                      *)
C4_NoStartMarker ==
  Parsing /\ NoStartMarker(buffer) =>
    /\ \A r \in ex.reads : r[1] + r[2] <= 2 /\ r[1] + r[2] <= Len(buffer)
    /\ ex.pc \in {"soi", "done"}
    /\ Done => ex.result = Undefined /\ ex.ret = 56

(* A buffer of more than two bytes whose first two are 0xD8 0xFF: only the *)
(* marker was read.                                                        *)
C4_Witness ==
  /\ Done /\ Parsing /\ Len(buffer) > 2
  /\ buffer[1] = 216 /\ buffer[2] = 255
  /\ ex.reads = {<<0, 2>>} /\ ex.result = Undefined

(* A timestamp value of the shape YYYY:MM:DD HH:MM:SS. *)
HasDateShape(q) ==
  /\ Digits(q, 1, 4) /\ q[5] = ChColon /\ Digits(q, 6, 2) /\ q[8] = ChColon
  /\ Digits(q, 9, 2) /\ q[11] = ChSpace
  /\ Digits(q, 12, 2) /\ q[14] = ChColon /\ Digits(q, 15, 2) /\ q[17] = ChColon
  /\ Digits(q, 18, 2)

(* Its fields name a date of the calendar and a time of the day. *)
IsValidDate(q) ==
  /\ ToInt(q, 6, 2) \in 1..12
  /\ ToInt(q, 9, 2) \in 1..DaysInMonth(ToInt(q, 1, 4), ToInt(q, 6, 2))
  /\ ToInt(q, 12, 2) <= 23 /\ ToInt(q, 15, 2) <= 59 /\ ToInt(q, 18, 2) <= 59

InstantOf(q) ==
  LocalInstant(ToInt(q, 1, 4), ToInt(q, 6, 2), ToInt(q, 9, 2),
               ToInt(q, 12, 2), ToInt(q, 15, 2), ToInt(q, 18, 2))

(* A buffer framed as C3 describes: SOI; an APP1 segment inside the buffer *)
(* whose payload starts with Exif\0\0; a TIFF header (at offset 12) with   *)
(* II or MM, magic 42 and a directory offset of at least 8; one directory  *)
(* entry 0x9003, type 2, count 20, whose offset, relative to the TIFF      *)
(* header, points at 20 bytes inside the buffer.                           *)
WellFramed(b) ==
  /\ Len(b) >= 20
  /\ getUint16(b, 0, FALSE) = SOI /\ getUint16(b, 2, FALSE) = APP1
  /\ getUint16(b, 4, FALSE) >= 8 /\ 4 + getUint16(b, 4, FALSE) <= Len(b)
  /\ SubSeq(b, 7, 12) = ExifBytes
  /\ SubSeq(b, 13, 14) \in {<<73, 73>>, <<77, 77>>}
  /\ LET le == b[13] = 73
         ifd == 12 + getUint32(b, 16, le)
         str == 12 + getUint32(b, ifd + 10, le)
     IN /\ getUint16(b, 14, le) = TiffMagic
        /\ getUint32(b, 16, le) >= 8
        /\ ifd + 14 <= Len(b)
        /\ getUint16(b, ifd, le) = 1
        /\ getUint16(b, ifd + 2, le) = TagDateTimeOriginal
        /\ getUint16(b, ifd + 4, le) = TypeAscii
        /\ getUint32(b, ifd + 6, le) = DateCount
        /\ str + 20 <= Len(b)

(* The 19 characters of the timestamp value of a framed buffer, and the    *)
(* byte after them.                                                        *)
DateStringOf(b) ==
  LET le == b[13] = 73
      ifd == 12 + getUint32(b, 16, le)
      str == 12 + getUint32(b, ifd + 10, le)
  IN SubSeq(b, str + 1, str + 19)

DateTerminatorOf(b) ==
  LET le == b[13] = 73
      ifd == 12 + getUint32(b, 16, le)
      str == 12 + getUint32(b, ifd + 10, le)
  IN b[str + 20]

(* The well-formed buffers of C3: framed, and the 20 bytes are a valid     *)
(* date of the shape YYYY:MM:DD HH:MM:SS and a NUL.                        *)
WellFormed(b) ==
  /\ WellFramed(b)
  /\ HasDateShape(DateStringOf(b))
  /\ IsValidDate(DateStringOf(b))
  /\ DateTerminatorOf(b) = 0

(* C3: on a well-formed buffer the call returns the instant of exactly the *)
(* date and time written in the timestamp string, never undefined.         *)
C3_WellFormedDate ==
  Done /\ Parsing /\ WellFormed(buffer) =>
    ex.result = Num(InstantOf(DateStringOf(buffer)))

(* A big-endian well-formed file dated 1999-12-31 23:59:59, parsed. *)
C3_Witness ==
  /\ Done /\ Parsing /\ WellFormed(buffer) /\ buffer[13] = 77
  /\ ex.result = Num(LocalInstant(1999, 12, 31, 23, 59, 59))

(* C5: when the scan has reached an APP1 marker at offset o whose segment  *)
(* length field is inside the buffer and o + 2 + length exceeds the buffer *)
(* length, nothing beyond the length field (o + 4) is ever read and the    *)
(* call returns undefined at the truncation check.                         *)
C5_TruncatedSegment ==
  LET o == ex.app1At
  IN Parsing /\ o >= 0 /\ o + 4 <= Len(buffer)
     /\ o + 2 + getUint16(buffer, o + 2, FALSE) > Len(buffer) =>
       /\ \A r \in ex.reads : r[1] + r[2] <= o + 4
       /\ ex.pc \in {"app1", "done"}
       /\ Done => ex.result = Undefined /\ ex.ret = 86

(* An Exif segment that declares one byte more than the buffer holds. *)
C5_Witness ==
  /\ Done /\ Parsing /\ ex.ret = 86 /\ Len(buffer) > 50
  /\ ex.app1At + 2 + getUint16(buffer, ex.app1At + 2, FALSE) = Len(buffer) + 1
  /\ SubSeq(buffer, ex.app1At + 5, ex.app1At + 10) = ExifBytes

(* The segment walk of the container format from offset o: where it ends   *)
(* and why ("sos": start-of-scan marker, "app1": metadata marker, "eof":   *)
(* no room for another marker or segment header).                          *)
RECURSIVE WalkEnd(_, _)
WalkEnd(b, o) ==
  IF o + 2 > Len(b) THEN [kind |-> "eof", at |-> o]
  ELSE LET m == getUint16(b, o, FALSE)
       IN IF m = SOS THEN [kind |-> "sos", at |-> o]
          ELSE IF m = APP1 THEN [kind |-> "app1", at |-> o]
          ELSE IF o + 4 > Len(b) THEN [kind |-> "eof", at |-> o]
          ELSE WalkEnd(b, o + 2 + getUint16(b, o + 2, FALSE))

(* C6: if the segment walk from offset 2 meets the start-of-scan marker,   *)
(* or runs out of buffer, before it meets an APP1 marker, the call never   *)
(* looks at an APP1 segment and returns undefined normally (not through    *)
(* the catch block), whatever follows in the buffer.                       *)
C6_StopsAtSOS ==
  Parsing /\ ~NoStartMarker(buffer) /\ WalkEnd(buffer, 2).kind # "app1" =>
    /\ ex.app1At = -1 /\ ex.pc \in {"soi", "scan", "done"}
    /\ Done => ex.result = Undefined /\ ex.ret \in {64, 69, 164}

(* A start-of-scan segment header directly followed by a well-formed Exif  *)
(* APP1 segment: the call returned undefined at the SOS marker.            *)
C6_Witness ==
  /\ Done /\ Parsing /\ ex.ret = 64
  /\ WalkEnd(buffer, 2) = [kind |-> "sos", at |-> 2]
  /\ WellFormed(<<255, 216>> \o SubSeq(buffer, 7, Len(buffer)))

(* The directory loop of the running call was entered: the entry count    *)
(* and the directory offset in the locals are those of this buffer.        *)
InDirectory ==
  ex.pc = "entry" \/ (Returned /\ ex.ret \in {129, 146, 157, 162})

(* Some entry below the declared count has a 12-byte window that extends   *)
(* past the end of the buffer.                                             *)
DirectoryOverruns ==
  ex.entries > 0
  /\ EntryOffset(ex.ifdOffset, ex.entries - 1) + EntrySize > Len(buffer)

(* C7 as claimed: a declared entry count that makes some entry window      *)
(* extend past the buffer end aborts the decode, whatever the entries      *)
(* before it contain: the call returns undefined.                          *)
C7_OverrunAborts ==
  Done /\ Parsing /\ InDirectory /\ DirectoryOverruns => ex.result = Undefined

(* The byte-order twin of a file description: the same logical values,     *)
(* written in the other byte order under the other byte-order marker.      *)
OtherOrder(order) == IF order = "II" THEN "MM" ELSE "II"

Twin(d) ==
  [d EXCEPT !.order = OtherOrder(d.order), !.bom = BomOf(OtherOrder(d.order))]

(* The file is what its description encodes, with a byte-order marker that *)
(* matches the order its fields are written in and no overwritten byte.    *)
Symmetric(d) == d.bom = BomOf(d.order) /\ d.corrupt = <<>>

(* C8: the byte order read from the marker is the one every directory      *)
(* field is decoded with, and a file and its byte-order twin decode to the *)
(* same result.                                                            *)
C8_ByteOrderSymmetry ==
  Parsing /\ Symmetric(input) =>
    /\ ex.pc = "entry" => ex.littleEndian = (input.order = "II")
    /\ Done => ex.result = ExifDateOfBuffer(SliceOf(Encode(Twin(input))), jsEngine)

(* A little-endian file that decoded to a timestamp, as its big-endian     *)
(* twin does.                                                              *)
C8_Witness ==
  /\ Done /\ Parsing /\ Symmetric(input) /\ input.order = "II"
  /\ ex.littleEndian /\ ex.result.k = "number"
  /\ Encode(Twin(input)) # buffer

(* C9: a call on the file of the first call returns what the first call    *)
(* returned after issuing the same reads, whatever was parsed in between;  *)
(* the buffer of a call is the file's prefix from the read to the return,  *)
(* and the file is the one handed in.                                      *)
C9_Idempotent ==
  /\ Done /\ first.set /\ input = first.input =>
       ex.result = first.result /\ ex.reads = first.reads
  /\ Parsing => buffer = SliceOf(file.bytes)
  /\ file = FileOf(input)

(* The third call, on the first file again after another file was parsed,  *)
(* returned the timestamp the first call returned.                         *)
C9_Witness ==
  /\ Done /\ calls = 3 /\ first.set /\ first.others = 1
  /\ input = first.input /\ ex.result.k = "number"
  /\ ex.result = first.result

(* C10 as claimed: in a framed buffer whose timestamp value does not have  *)
(* the shape YYYY:MM:DD HH:MM:SS, or does not encode a valid date, the     *)
(* call returns undefined.                                                 *)
C10_BadDateRejected ==
  Done /\ Parsing /\ WellFramed(buffer)
  /\ ~(HasDateShape(DateStringOf(buffer)) /\ IsValidDate(DateStringOf(buffer)))
  => ex.result = Undefined

(* C12: for a file whose media type is neither image/jpeg nor image/jpg    *)
(* the call never reads the file (no buffer is fetched, no DataView read   *)
(* is issued) and resolves to undefined at the type check, the result a    *)
(* file without metadata gets.                                             *)
C12_NonJpegType ==
  file.type \notin {"image/jpeg", "image/jpg"} =>
    /\ buffer = <<>> /\ ex.reads = {}
    /\ ex.pc \in {"type", "done", "settled"}
    /\ Returned => ex.result = Undefined /\ ex.ret = 48 /\ ex.status = "resolved"

(* A PNG-typed file that holds a well-formed Exif timestamp: undefined. *)
C12_Witness ==
  /\ Done /\ file.type = "image/png" /\ file.readable
  /\ WellFormed(file.bytes) /\ ex.result = Undefined /\ ex.ret = 48

(* C15: the call terminates.  An iteration of the segment scan that does   *)
(* not return moves the cursor forward by 2 + the declared length, which   *)
(* is at least 2 also for a declared length of 0 or 1; an iteration of the *)
(* directory loop that does not return adds one to i, leaves the entry     *)
(* count alone and never takes i beyond the declared count.                *)
C15_Terminates ==
  [][/\ ex.pc = "scan" /\ ex'.pc = "scan" =>
          /\ ex'.offset = ex.offset + 2 + getUint16(buffer, ex.offset + 2, FALSE)
          /\ ex'.offset >= ex.offset + 2
     /\ ex.pc = "entry" /\ ex'.pc = "entry" =>
          /\ ex'.i = ex.i + 1 /\ ex'.i <= ex.entries
          /\ ex'.entries = ex.entries]_vars

(* The scan went on at offset 4 after a first segment of declared length 0. *)
C15_Witness ==
  /\ Parsing /\ ex.pc = "scan" /\ ex.offset = 4 /\ Len(buffer) > 6
  /\ getUint16(buffer, 2, FALSE) \notin {SOS, APP1}
  /\ getUint16(buffer, 4, FALSE) = 0

(* The buffer b without the segments between the start marker and offset o. *)
StripTo(b, o) == <<255, 216>> \o SubSeq(b, o + 1, Len(b))

(* C16: when the segment walk from offset 2 passes only segments whose     *)
(* markers are neither APP1 nor SOS and arrives at an APP1 marker inside   *)
(* the buffer, the call looks at exactly that APP1 segment and returns     *)
(* what it returns for the buffer in which that segment directly follows   *)
(* the start marker (which, with no segment in between, is the buffer      *)
(* itself).                                                                *)
C16_SkipsTransparently ==
  LET w == WalkEnd(buffer, 2)
  IN Parsing /\ ~NoStartMarker(buffer) /\ w.kind = "app1" =>
       /\ ex.app1At \in {-1, w.at}
       /\ Done => ex.app1At = w.at
       /\ Done /\ w.at > 2 =>
            ex.result = ExifDateOfBuffer(StripTo(buffer, w.at), jsEngine)

(* A timestamp decoded from an APP1 segment that follows another segment. *)
C16_Witness ==
  /\ Done /\ Parsing /\ WalkEnd(buffer, 2).kind = "app1"
  /\ WalkEnd(buffer, 2).at > 2 /\ ex.app1At = WalkEnd(buffer, 2).at
  /\ ex.result.k = "number"

(* The 6 bytes at the start of the payload of the APP1 segment at offset o *)
(* are inside the buffer and are 'Exif' and two zero bytes.                *)
PayloadHasSignature(b, o) ==
  o + 10 <= Len(b) /\ SubSeq(b, o + 5, o + 10) = ExifBytes

(* C17: when the 6 bytes at the start of the APP1 payload are not 'Exif'   *)
(* and two zero bytes, the call reads nothing at or after the TIFF header  *)
(* (payload offset 6), never leaves the APP1 header checks, and returns    *)
(* undefined.                                                              *)
C17_BadSignature ==
  LET o == ex.app1At
  IN Parsing /\ o >= 0 /\ ~PayloadHasSignature(buffer, o) =>
       /\ \A r \in ex.reads : r[1] + r[2] <= o + 10
       /\ ex.pc \in {"app1", "done"}
       /\ Done => ex.result = Undefined /\ ex.ret \in {80, 86, 92, 95, 98}

(* A payload that starts with 'Exif', a zero byte and a byte 1, followed   *)
(* by a well-formed TIFF payload: rejected at the null-byte check.         *)
C17_Witness ==
  /\ Done /\ Parsing /\ ex.app1At = 2 /\ Len(buffer) > 50
  /\ SubSeq(buffer, 7, 12) = <<69, 120, 105, 102, 0, 1>>
  /\ WellFormed([buffer EXCEPT ![12] = 0])
  /\ ex.ret = 98 /\ ex.result = Undefined

(* C18 as claimed: an APP1 segment whose declared length is below 8, so    *)
(* that its payload is shorter than the 6-byte signature, makes the call   *)
(* return undefined, whatever bytes follow the segment in the buffer.      *)
C18_ShortPayloadRejected ==
  LET o == ex.app1At
  IN Done /\ Parsing /\ o >= 0 /\ o + 4 <= Len(buffer)
     /\ getUint16(buffer, o + 2, FALSE) < 8
     => ex.result = Undefined

(* The running call has passed the APP1 header checks: tiffOffset in the   *)
(* locals is the TIFF header position in this buffer.                      *)
PastApp1 ==
  ex.pc \in {"tiff", "entry"}
  \/ (Returned /\ ex.ret \in {111, 115, 120, 129, 146, 157, 162})

(* C19 as claimed: when the two bytes directly after the Exif signature    *)
(* are neither 0x4949 nor 0x4D4D the call returns undefined.               *)
C19_UnknownByteOrderRejected ==
  Done /\ Parsing /\ PastApp1
  /\ getUint16(buffer, ex.tiffOffset, FALSE) \notin {BomII, BomMM}
  => ex.result = Undefined

(* C20: when the 2-byte constant after the byte-order marker, read in the  *)
(* byte order the marker established, is not 0x002A, the call reads        *)
(* nothing after the constant (no directory offset, no directory) and      *)
(* returns undefined at the magic check.                                   *)
C20_BadMagic ==
  LET t == ex.tiffOffset
      le == getUint16(buffer, t, FALSE) = BomII
  IN Parsing /\ PastApp1 /\ getUint16(buffer, t + 2, le) # TiffMagic =>
       /\ \A r \in ex.reads : r[1] + r[2] <= t + 4
       /\ ex.pc \in {"tiff", "done"}
       /\ Done => ex.result = Undefined /\ ex.ret = 111

(* A little-endian file whose constant is written 00 2A, which is 42 only  *)
(* in big-endian order: rejected.                                          *)
C20_Witness ==
  /\ Done /\ Parsing /\ ex.ret = 111 /\ ex.tiffOffset = 12
  /\ SubSeq(buffer, 13, 16) = <<73, 73, 0, 42>>
  /\ <<14, 2>> \in ex.reads /\ ex.result = Undefined

(* No entry of the first directory that lies inside the buffer carries the *)
(* tag 0x9003.                                                             *)
NoDateTag ==
  \A j \in 0..(ex.entries - 1) :
    EntryOffset(ex.ifdOffset, j) + EntrySize <= Len(buffer) =>
      getUint16(buffer, EntryOffset(ex.ifdOffset, j), ex.littleEndian)
        # TagDateTimeOriginal

(* C13: when the first directory holds no entry with tag 0x9003 the call   *)
(* returns undefined (at the end of the directory loop, or where the       *)
(* directory leaves the buffer), and the photo's dateTaken is absent       *)
(* before and after the callback of App has run: no default or placeholder *)
(* timestamp is produced.                                                  *)
C13_NoTagNoDate ==
  Parsed /\ InDirectory /\ NoDateTag =>
    /\ app.photos[1].dateTaken = Undefined
    /\ Returned => ex.result = Undefined /\ ex.ret \in {129, 162}

(* The callback has run for a directory of two entries, neither of them    *)
(* 0x9003: the photo has no dateTaken.                                     *)
C13_Witness ==
  /\ ex.pc = "settled" /\ Parsed /\ InDirectory /\ NoDateTag
  /\ ex.entries = 2 /\ ex.i = 2 /\ ex.ret = 162
  /\ app.photos[1].dateTaken = Undefined

(* Entry j of the first directory lies inside the buffer. *)
EntryInBuffer(j) ==
  j < ex.entries /\ EntryOffset(ex.ifdOffset, j) + EntrySize <= Len(buffer)

(* The directory holds an ASCII entry with the given tag whose string lies *)
(* inside the buffer.                                                      *)
HasValidAscii(tag) ==
  \E j \in 0..(ex.entries - 1) :
    LET e == EntryOffset(ex.ifdOffset, j)
        le == ex.littleEndian
    IN /\ EntryInBuffer(j)
       /\ getUint16(buffer, e, le) = tag
       /\ getUint16(buffer, e + 2, le) = TypeAscii
       /\ ex.tiffOffset + getUint32(buffer, e + 8, le)
            + getUint32(buffer, e + 4, le) <= Len(buffer)

(* The directory holds a 0x9003 entry that is not an ASCII value of count  *)
(* 20 inside the buffer holding a valid YYYY:MM:DD HH:MM:SS date.          *)
HasCorruptedDate ==
  \E j \in 0..(ex.entries - 1) :
    LET e == EntryOffset(ex.ifdOffset, j)
        le == ex.littleEndian
        str == ex.tiffOffset + getUint32(buffer, e + 8, le)
    IN /\ EntryInBuffer(j)
       /\ getUint16(buffer, e, le) = TagDateTimeOriginal
       /\ ~(/\ getUint16(buffer, e + 2, le) = TypeAscii
             /\ getUint32(buffer, e + 4, le) = DateCount
             /\ str + DateCount <= Len(buffer)
             /\ HasDateShape(SubSeq(buffer, str + 1, str + DateChars))
             /\ IsValidDate(SubSeq(buffer, str + 1, str + DateChars)))

(* The value the call resolved to is a record with the field f set. *)
HasField(v, f) == v.k = "record" /\ f \in DOMAIN v.v

(* C11 as claimed: for a directory that holds a corrupted 0x9003 entry and *)
(* valid camera make and model entries, the output of the parser has       *)
(* cameraMake and cameraModel set and capturedAt absent.                   *)
C11_FieldIndependence ==
  Done /\ Parsing /\ InDirectory /\ HasCorruptedDate
  /\ HasValidAscii(TagMake) /\ HasValidAscii(TagModel)
  => /\ HasField(ex.result, "cameraMake") /\ HasField(ex.result, "cameraModel")
     /\ ~HasField(ex.result, "capturedAt")

(* What the two promises started for a photo deliver: the timestamp and    *)
(* the dimensions of the photo's own file.                                 *)
OwnDateTaken(p) ==
  LET dateTaken == ExifDateOf[p.file, jsEngine]
  IN IF Truthy(dateTaken) THEN dateTaken ELSE Undefined

OwnDimensions(p) ==
  LET dims == getImageDimensions(p.file)
  IN IF dims.k = "resolved"
     THEN [width |-> dims.width, height |-> dims.height]
     ELSE Undefined

(* A lazy load that will update a photo with this id is still in flight. *)
AwaitsResult(id) ==
  \E t \in tasks.pending : t.kind \in {"dims", "exif"} /\ t.id = id

(* C14 as claimed: in every interleaving of loads, deletes and arriving    *)
(* results, a photo in state carries no dateTaken and no dimensions but    *)
(* those of its own file, and once the results addressed to it have all    *)
(* arrived it carries exactly those: the final state does not depend on    *)
(* the order of arrival.                                                   *)
C14_ResultsOrderFree ==
  \A k \in DOMAIN app.photos :
    LET p == app.photos[k]
    IN /\ p.dateTaken \in {Undefined, OwnDateTaken(p)}
       /\ p.dimensions \in {Undefined, OwnDimensions(p)}
       /\ ~AwaitsResult(p.id) =>
            p.dateTaken = OwnDateTaken(p) /\ p.dimensions = OwnDimensions(p)

(* C21: when the constant is 0x002A and the 4-byte first-directory offset  *)
(* is smaller than 8, or base offset + offset + 2 exceeds the buffer       *)
(* length, the call reads nothing but the three header fields from the     *)
(* base offset on (no entry count, no entry) and returns undefined at the  *)
(* offset checks.  The base offset is the position directly after the      *)
(* six signature bytes of the APP1 segment, and a timestamp that is        *)
(* returned was read at base offset + value offset of its entry.           *)
C21_BadDirectoryOffset ==
  LET t == ex.tiffOffset
      le == getUint16(buffer, t, FALSE) = BomII
      firstIFDOffset == getUint32(buffer, t + 4, le)
      value == getUint32(buffer, ex.ifdOffset + 2 + ex.i * EntrySize + 8,
                         ex.littleEndian)
  IN Parsing /\ PastApp1 =>
       /\ t = ex.app1At + 10
       /\ SubSeq(buffer, t - 5, t) = ExifBytes
       /\ getUint16(buffer, t + 2, le) = TiffMagic
           /\ (firstIFDOffset < 8 \/ t + firstIFDOffset + 2 > Len(buffer))
           => /\ \A r \in ex.reads :
                   r[1] + r[2] <= t \/ r \in {<<t, 2>>, <<t + 2, 2>>, <<t + 4, 4>>}
              /\ ex.pc \in {"tiff", "done"}
              /\ Done => ex.result = Undefined /\ ex.ret \in {115, 120}
       /\ Done /\ ex.ret = 157 =>
            \A j \in 0..(DateChars - 1) : <<t + value + j, 1>> \in ex.reads

(* A first-directory offset of 7 in a file long enough to hold a directory *)
(* there: rejected at the minimum check, after the offset was read.        *)
C21_Witness ==
  /\ Done /\ Parsing /\ ex.ret = 115 /\ ex.tiffOffset = 12
  /\ getUint32(buffer, 16, TRUE) = 7 /\ Len(buffer) > 40
  /\ <<16, 4>> \in ex.reads /\ ex.result = Undefined

(* A first-directory offset of 1000 in a file of 58 bytes: rejected at the *)
(* bounds check of the directory.                                          *)
C21_OffsetBeyondBuffer ==
  /\ Done /\ Parsing /\ ex.ret = 120 /\ ex.tiffOffset = 12
  /\ getUint32(buffer, 16, FALSE) = 1000 /\ Len(buffer) = 58
  /\ ex.result = Undefined

(* The entries of the first directory whose 12-byte window lies inside the *)
(* buffer.                                                                 *)
EntriesInBuffer ==
  LET room == (Len(buffer) - ex.ifdOffset - 2) \div EntrySize
  IN 0..((IF ex.entries < room THEN ex.entries ELSE room) - 1)

(* Entry k is a 0x9003 entry of type 2 and count 20 whose string lies      *)
(* inside the buffer: the one kind of entry whose value is dereferenced.   *)
IsDecodedEntry(k) ==
  LET e == EntryOffset(ex.ifdOffset, k)
      le == ex.littleEndian
  IN /\ getUint16(buffer, e, le) = TagDateTimeOriginal
     /\ getUint16(buffer, e + 2, le) = TypeAscii
     /\ getUint32(buffer, e + 4, le) = DateCount
     /\ ex.tiffOffset + getUint32(buffer, e + 8, le) + DateCount <= Len(buffer)

(* Every read in the log is a read of the headers (two or four bytes, up   *)
(* to the end of the TIFF header), the entry count, the tag of an entry,   *)
(* the type, count or value of a 0x9003 entry, or a character of the       *)
(* string of a 0x9003 entry of type 2 and count 20.                        *)
ReadsAccountedFor ==
  \A r \in ex.reads :
    \/ r[2] # 1 /\ r[1] + r[2] <= ex.tiffOffset + 8
    \/ r = <<ex.ifdOffset, 2>>
    \/ \E j \in EntriesInBuffer :
         LET e == EntryOffset(ex.ifdOffset, j)
             le == ex.littleEndian
             str == ex.tiffOffset + getUint32(buffer, e + 8, le)
         IN \/ r = <<e, 2>>
            \/ /\ getUint16(buffer, e, le) = TagDateTimeOriginal
               /\ r \in {<<e + 2, 2>>, <<e + 4, 4>>, <<e + 8, 4>>}
            \/ /\ IsDecodedEntry(j)
               /\ r[2] = 1 /\ r[1] \in str..(str + DateChars - 1)

(* The buffer with the type, count and value bytes of the entry at e       *)
(* overwritten by the ten bytes of fields.                                 *)
WithEntryFields(b, e, fields) ==
  [k \in 1..Len(b) |->
     IF k - 1 \in (e + 2)..(e + EntrySize - 1) THEN fields[k - e - 2] ELSE b[k]]

(* What the fields of an entry are rewritten to: ten bytes 0xFF, and the   *)
(* type, count and value of a timestamp entry whose string is at TIFF      *)
(* offset 8 or directly after the directory.                               *)
FieldRewrites ==
  LET order == IF ex.littleEndian THEN "II" ELSE "MM"
      after == ex.ifdOffset - ex.tiffOffset + 2 + EntrySize * ex.entries + 4
  IN {Rep(10, 255)}
     \cup {Enc16(TypeAscii, order) \o Enc32(DateCount, order) \o Enc32(v, order)
             : v \in {MinIFDOffset, IF after < 65536 THEN after ELSE 65535}}

(* The type, count and value bytes of entry j are among the characters of  *)
(* the string of a decoded 0x9003 entry.                                   *)
InsideDateString(j) ==
  \E k \in EntriesInBuffer :
    LET str == ex.tiffOffset
               + getUint32(buffer, EntryOffset(ex.ifdOffset, k) + 8,
                           ex.littleEndian)
        e == EntryOffset(ex.ifdOffset, j)
    IN /\ IsDecodedEntry(k)
       /\ str <= e + EntrySize - 1 /\ e + 2 <= str + DateChars - 1

(* C22 as claimed: an entry whose tag is not 0x9003 has only its tag read, *)
(* and rewriting its type, count and value bytes never changes the result. *)
C22_SkippedUndecoded ==
  Parsing /\ InDirectory =>
    /\ ReadsAccountedFor
    /\ Done =>
         \A j \in EntriesInBuffer :
           getUint16(buffer, EntryOffset(ex.ifdOffset, j), ex.littleEndian)
             # TagDateTimeOriginal
           => \A fields \in FieldRewrites :
                ExifDateOfBuffer(
                  WithEntryFields(buffer, EntryOffset(ex.ifdOffset, j), fields),
                  jsEngine) = ex.result

(* C22, amended: an entry whose tag is not 0x9003 has only its tag read,   *)
(* and rewriting its type, count and value bytes does not change the       *)
(* result unless those bytes are also characters of the string that a      *)
(* 0x9003 entry of type 2 and count 20 points at.                          *)
C22_SkippedUnlessInString ==
  Parsing /\ InDirectory =>
    /\ ReadsAccountedFor
    /\ Done =>
         \A j \in EntriesInBuffer :
           /\ getUint16(buffer, EntryOffset(ex.ifdOffset, j), ex.littleEndian)
                # TagDateTimeOriginal
           /\ ~InsideDateString(j)
           => \A fields \in FieldRewrites :
                ExifDateOfBuffer(
                  WithEntryFields(buffer, EntryOffset(ex.ifdOffset, j), fields),
                  jsEngine) = ex.result

(* A directory of a make entry and a timestamp entry was walked to the     *)
(* timestamp: of the make entry only the tag was read, none of its other   *)
(* bytes and nothing at its value offset.                                  *)
C22_Witness ==
  /\ Done /\ Parsing /\ InDirectory /\ ex.ret = 157 /\ ex.i = 1
  /\ getUint16(buffer, EntryOffset(ex.ifdOffset, 0), ex.littleEndian) = TagMake
  /\ ~InsideDateString(0)
  /\ <<EntryOffset(ex.ifdOffset, 0), 2>> \in ex.reads
  /\ <<EntryOffset(ex.ifdOffset, 0) + 8, 4>> \notin ex.reads
  /\ ex.result # Undefined

(* Entry j carries the tag 0x9003 with type 2 and count 20. *)
IsTimestampEntry(j) ==
  LET e == EntryOffset(ex.ifdOffset, j)
      le == ex.littleEndian
  IN /\ getUint16(buffer, e, le) = TagDateTimeOriginal
     /\ getUint16(buffer, e + 2, le) = TypeAscii
     /\ getUint32(buffer, e + 4, le) = DateCount

(* Entry j carries the tag 0x9003 with another type or another count. *)
IsMismatchedEntry(j) ==
  /\ getUint16(buffer, EntryOffset(ex.ifdOffset, j), ex.littleEndian)
       = TagDateTimeOriginal
  /\ ~IsTimestampEntry(j)

(* The 19 characters that entry k points at. *)
EntryString(k) ==
  LET str == ex.tiffOffset
             + getUint32(buffer, EntryOffset(ex.ifdOffset, k) + 8,
                         ex.littleEndian)
  IN SubSeq(buffer, str + 1, str + DateChars)

(* Entry k is the first 0x9003 entry of type 2 and count 20, it comes      *)
(* after a mismatched 0x9003 entry, and its string is a valid date inside  *)
(* the buffer.                                                             *)
WellFormedAfterMismatch(k) ==
  /\ IsTimestampEntry(k) /\ IsDecodedEntry(k)
  /\ \A j \in 0..(k - 1) : ~IsTimestampEntry(j)
  /\ \E j \in 0..(k - 1) : IsMismatchedEntry(j)
  /\ HasDateShape(EntryString(k)) /\ IsValidDate(EntryString(k))

(* C23: a 0x9003 entry whose type is not 2 or whose count is not 20 never  *)
(* ends the call and has no character read on its behalf; the walk goes on *)
(* to the entries after it, and a well-formed 0x9003 entry that follows    *)
(* produces the result.                                                    *)
C23_MismatchSkipped ==
  Parsing /\ InDirectory =>
    /\ Done /\ ex.ret \in {146, 157} => IsTimestampEntry(ex.i)
    /\ (\A j \in EntriesInBuffer : ~IsTimestampEntry(j)) =>
         \A r \in ex.reads : r[2] # 1
    /\ \A k \in EntriesInBuffer :
         WellFormedAfterMismatch(k) =>
           /\ ex.pc = "entry" => ex.i <= k
           /\ Done => /\ ex.ret = 157 /\ ex.i = k
                      /\ ex.result = Num(InstantOf(EntryString(k)))

(* A 0x9003 entry of count 19 followed by a well-formed one: the call      *)
(* returned the date of the second entry.                                  *)
C23_Witness ==
  /\ Done /\ Parsing /\ InDirectory /\ ex.entries = 2 /\ ex.i = 1
  /\ IsMismatchedEntry(0)
  /\ getUint32(buffer, EntryOffset(ex.ifdOffset, 0) + 4, ex.littleEndian) = 19
  /\ WellFormedAfterMismatch(1)
  /\ ex.result = Num(LocalInstant(2024, 3, 15, 10, 30, 0))

(* The same with a first entry of type 7 (UNDEFINED). *)
C23_WrongType ==
  /\ Done /\ Parsing /\ InDirectory /\ ex.i = 1
  /\ getUint16(buffer, EntryOffset(ex.ifdOffset, 0) + 2, ex.littleEndian) = 7
  /\ WellFormedAfterMismatch(1) /\ ex.ret = 157

(* Where the string of entry k starts in the buffer. *)
EntryStringOffset(k) ==
  ex.tiffOffset
  + getUint32(buffer, EntryOffset(ex.ifdOffset, k) + 8, ex.littleEndian)

(* Entry k is the first 0x9003 entry of type 2 and count 20 of the         *)
(* directory, and the 20 bytes it points at do not all lie inside the      *)
(* buffer.                                                                 *)
StringOutOfBounds(k) ==
  /\ IsTimestampEntry(k)
  /\ \A j \in 0..(k - 1) : ~IsTimestampEntry(j)
  /\ EntryStringOffset(k) + 20 > Len(buffer)

C24_FarOffset ==
  /\ Done /\ Parsing /\ InDirectory /\ ex.ret = 146
  /\ StringOutOfBounds(ex.i) /\ EntryStringOffset(ex.i) = ex.tiffOffset + 1000

(* The APP1 segment at offset o fails one of the checks made between the   *)
(* marker and the entry count: header or segment outside the buffer, no    *)
(* Exif signature, no room for a TIFF header, a wrong constant, a          *)
(* first-directory offset below 8 or outside the buffer.                   *)
FailsHeaderChecks(b, o) ==
  \/ o + 4 > Len(b)
  \/ o + 2 + getUint16(b, o + 2, FALSE) > Len(b)
  \/ ~PayloadHasSignature(b, o)
  \/ o + 18 > Len(b)
  \/ LET le == getUint16(b, o + 10, FALSE) = BomII
     IN \/ getUint16(b, o + 12, le) # TiffMagic
        \/ getUint32(b, o + 14, le) < 8
        \/ o + 10 + getUint32(b, o + 14, le) + 2 > Len(b)

(* C25: the call looks at the first APP1 segment the walk from offset 2    *)
(* reaches and at no other: once the marker is recognised the scan is      *)
(* never resumed, and when that segment fails a header check the call      *)
(* returns undefined at that check, whatever follows in the buffer.        *)
C25_FirstApp1Only ==
  LET w == WalkEnd(buffer, 2)
  IN Parsing /\ ~NoStartMarker(buffer) /\ w.kind = "app1" =>
       /\ ex.app1At >= 0 =>
            ex.app1At = w.at /\ ex.offset = w.at /\ ex.pc # "scan"
       /\ Done /\ FailsHeaderChecks(buffer, w.at) =>
            /\ ex.result = Undefined
            /\ ex.ret \in {80, 86, 92, 95, 98, 103, 111, 115, 120}

(* An APP1 segment without the Exif signature, followed by an APP1 segment *)
(* that holds a valid timestamp: the call returned undefined at the        *)
(* signature check of the first, though the rest of the buffer alone       *)
(* yields the date.                                                        *)
C25_Witness ==
  /\ Done /\ Parsing /\ ex.app1At = 2 /\ ex.ret = 95 /\ ex.result = Undefined
  /\ getUint16(buffer, 8, FALSE) = APP1
  /\ ExifDateOfBuffer(StripTo(buffer, 8), jsEngine)
       = Num(LocalInstant(2024, 3, 15, 10, 30, 0))

(* C26 as claimed: every call of removeEntry that handleConfirmDelete      *)
(* makes goes to the handle of the directory the photo being deleted was   *)
(* loaded from (the directory of its file handle), so that no entry of a   *)
(* newly picked folder is ever removed for a photo of the previous one.    *)
C26_RemovesFromOwnFolder ==
  \A c \in tasks.removed :
    c.fileHandle = FileHandle(c.directoryHandle.name)

(* A delete confirmed while the enumeration of folder B was in flight has  *)
(* removed B's a.jpg for the photo a.jpg that was loaded from folder A.    *)
C26_RemovedFromNewFolder ==
  /\ \E c \in tasks.removed :
       /\ c.removed /\ c.directoryHandle = DirectoryHandle("B")
       /\ c.fileHandle = FileHandle("A")
  /\ disk["B"] = <<>> /\ disk["A"] = InitDisk["A"]

----------------------------------------------------------------------------
(* Properties of the selection, of deletes, of the keyboard and of renames. *)

(* C27: in every state App reaches, through folder loads, toggle-selects,  *)
(* select-all, context-menu selections, confirmed deletes, batch renames   *)
(* and late EXIF and dimension callbacks in any order, selectedIds is a    *)
(* subset of the ids of the photos held in state.                          *)
C27_SelectionHeld ==
  \A id \in app.selectedIds : \E k \in DOMAIN app.photos : app.photos[k].id = id

(* A delete is removing the files of an earlier selection while photos of  *)
(* a later load are selected.                                              *)
C27_Witness ==
  \E t \in tasks.pending :
    /\ t.kind = "delete" /\ t.stage = "remove"
    /\ app.selectedIds # {}
    /\ app.selectedIds \cap t.selectedIds = {}
    /\ tasks.loads = 2

(* After the step, no photo with one of these ids is held and nothing is  *)
(* selected.                                                               *)
DeletedAfter(selectedIds) ==
  /\ \A k \in DOMAIN app'.photos : app'.photos[k].id \notin selectedIds
  /\ app'.selectedIds = {}

(* The step in which a confirmed delete without a directory handle runs. *)
DeletesInMemory ==
  /\ app.isDeleteModalOpen /\ tasks'.deletes = tasks.deletes + 1
  /\ app.selectedIds # {} /\ app.directoryHandle = Null

(* The step in which the delete t gets the answer of its last removeEntry. *)
LastRemoval(t) ==
  /\ t.kind = "delete" /\ t.stage = "remove" /\ Cardinality(t.todo) = 1
  /\ t \notin tasks'.pending

(* The step in which the delete t is refused the permission to write. *)
PermissionDenied(t) ==
  /\ t.kind = "delete" /\ t.stage = "permission"
  /\ t \notin tasks'.pending
  /\ ~\E u \in tasks'.pending :
        /\ u.kind = "delete" /\ u.stage = "remove"
        /\ u.selectedIds = t.selectedIds /\ u.photos = t.photos

(* C28: when handleConfirmDelete runs to its end with a non-empty          *)
(* selection, with the permission to write granted or with no directory    *)
(* handle, every photo whose id was selected at confirmation is absent     *)
(* from photos and the selection is empty, whether or not removeEntry      *)
(* succeeded on disk; when the permission is denied, photos and selection  *)
(* are left as they were.                                                  *)
C28_DeleteCompletes ==
  [][/\ DeletesInMemory => DeletedAfter(app.selectedIds)
     /\ \A t \in tasks.pending :
          /\ LastRemoval(t) => DeletedAfter(t.selectedIds)
          /\ PermissionDenied(t) =>
               /\ app'.photos = app.photos
               /\ app'.selectedIds = app.selectedIds]_vars

(* A delete is over whose removeEntry call failed: the file is still in    *)
(* its folder and the photo is gone from the only load there was.          *)
C28_Witness ==
  /\ tasks.loads = 1 /\ tasks.deletes = 1
  /\ \A t \in tasks.pending : t.kind # "delete"
  /\ app.selectedIds = {}
  /\ \E c \in tasks.removed :
       /\ ~c.removed
       /\ c.name \in NamesIn(disk[c.directoryHandle.name])
       /\ \A k \in DOMAIN app.photos : app.photos[k].id # c.id

(* C29: while the rename modal or the delete-confirmation modal is open,   *)
(* no keydown event (Space, Escape, ArrowLeft, ArrowRight, Delete,         *)
(* Backspace, Ctrl/Cmd+A) changes selectedIds, quickLookPhoto or photos,   *)
(* or opens another modal.                                                 *)
C29_KeysIgnored ==
  (app.isRenameModalOpen \/ app.isDeleteModalOpen) =>
    \A key \in Keys, firstSelectedId \in FirstSelected(app),
       tagName \in {"BODY", "INPUT"} :
      LET after == handleKeyDown(app, key, firstSelectedId, tagName)
      IN /\ after.selectedIds = app.selectedIds
         /\ after.quickLookPhoto = app.quickLookPhoto
         /\ after.photos = app.photos
         /\ after.isRenameModalOpen = app.isRenameModalOpen
         /\ after.isDeleteModalOpen = app.isDeleteModalOpen

(* A key went down while the delete-confirmation modal was open over a     *)
(* selection that Escape would have cleared.                               *)
C29_Witness ==
  /\ app.isDeleteModalOpen /\ tasks.ignored
  /\ app.selectedIds # {} /\ app.quickLookPhoto = Null

(* The positions in photos of the selected photos that come before pos. *)
SelectedBefore(r, pos) ==
  {q \in 1..(pos - 1) : r.photos[q].id \in r.selectedIds}

(* The name the k-th selected photo, at pos, is to get (k counted from 0). *)
NumberedName(r, pos) ==
  [stem |-> <<r.options.prefix>> \o
            padStart(toString(r.options.startNumber
                              + Cardinality(SelectedBefore(r, pos))), 3, "0"),
   ext |-> r.photos[pos].name.ext]

(* C30: in sequence mode every name handleBatchRename gives is, for the    *)
(* k-th selected photo in the order of photos (k = 0, 1, ...), prefix +    *)
(* (startNumber + k) padded with zeros to 3 digits + '.' + the photo's     *)
(* extension, for every startNumber the modal accepts (0 and up), so that  *)
(* the first renamed photo carries the number of the modal's preview.      *)
C30_NumberedFromStart ==
  \A r \in tasks.renamed :
    r.options.mode = "sequence" =>
      \A j \in DOMAIN r.updates :
        \E pos \in DOMAIN r.photos :
          /\ r.photos[pos].id = r.updates[j].id
          /\ r.updates[j].newName = NumberedName(r, pos)
          /\ SelectedBefore(r, pos) = {} =>
               r.updates[j].newName.stem =
                 getPreview(r.options.prefix, r.options.startNumber).stem

(* A rename confirmed with start number 0, for which the modal previewed   *)
(* Photo_000.jpg, has named its first photo Photo_001.                      *)
C30_StartsAtOne ==
  \E r \in tasks.renamed :
    /\ r.options = SequenceOptions(0)
    /\ r.updates # <<>>
    /\ r.updates[1].newName.stem = <<"Photo_", "0", "0", "1">>
    /\ getPreview("Photo_", 0).stem = <<"Photo_", "0", "0", "0">>

=========================================================================
